---- MODULE Spec2Model ----
(***************************************************************************)
(* State-machine model of the resource hook with cache reconciliation      *)
(* (createResourceFactory / useResource): the refresh pass with its        *)
(* three-way merge between cache entries and the fetched remote list, the  *)
(* caller-issued mutations, and the adapters they talk to.                 *)
(***************************************************************************)
EXTENDS Integers, Sequences, FiniteSets, TLC

\* ---------------------------------------------------------------- bounds
MaxId == 2
MaxName == 2
MaxPasses == 2
MaxOps == 1
MaxConcurrentOps == 2
MaxMutations == 1
MaxBase == 2
MaxDeltas == 2
MaxDiffId == 3
MaxDiffLen == 2
MaxEvents == 2
MaxListeners == 2

Ids == 1..MaxId
Names == 1..MaxName
PassIds == 1..MaxPasses

\* ---------------------------------------------------------------- values
\* JavaScript values: every value is a record tagged with its type.
Null == [t |-> "null"]
Undefined == [t |-> "undefined"]
Num(n) == [t |-> "num", v |-> n]
Bool(b) == [t |-> "bool", v |-> b]
Obj(f) == [t |-> "obj", f |-> f]

\* A resource {id, name}.
Item(i, n) == Obj([id |-> Num(i), name |-> Num(n)])
ItemsOf(i) == {Item(i, n) : n \in Names}
Items == UNION {ItemsOf(i) : i \in Ids}
\* An item the caller stores before the remote has given it an id.
NewItems == {Obj([name |-> Num(n)]) : n \in Names}

\* a ?? b
Coalesce(a, b) == IF a \in {Null, Undefined} THEN b ELSE a

\* o[key]: a missing key reads as undefined.
Get(o, key) == IF key \in DOMAIN o.f THEN o.f[key] ELSE Undefined

\* {...a, ...b}
Spread(a, b) ==
    Obj([k \in (DOMAIN a.f) \cup (DOMAIN b.f) |->
            IF k \in DOMAIN b.f THEN b.f[k] ELSE a.f[k]])

\* ({id, ...rest}) => rest
Rest(item) == Obj([k \in (DOMAIN item.f) \ {"id"} |-> item.f[k]])

\* item.id: undefined on an item that carries none.
ItemId(item) == Get(item, "id")

isAtomic(input) == input.t \notin {"obj", "arr"}

\* The default leaf comparator (a === b) and a caller-supplied one (a == b).
ApplyEquality(equalityCallback, a, b) ==
    IF equalityCallback = "strict"
    THEN a = b
    ELSE a = b \/ (a \in {Null, Undefined} /\ b \in {Null, Undefined})

RECURSIVE deepEquals(_, _, _)
deepEquals(a, b, equalityCallback) ==
    IF isAtomic(a) /\ isAtomic(b)
    THEN ApplyEquality(equalityCallback, a, b)
    ELSE IF ~isAtomic(a) /\ ~isAtomic(b) /\ ((a.t = "arr") <=> (b.t = "arr"))
         THEN /\ \A key \in DOMAIN a.f :
                    deepEquals(a.f[key], Get(b, key), "strict")
              /\ \A key \in (DOMAIN b.f) \ (DOMAIN a.f) :
                    deepEquals(b.f[key], Get(a, key), "strict")
         ELSE FALSE

\* item => item.id.toString()
uniqueIdentifierCallback(item) == ToString(item.f.id.v)

\* ---------------------------------------------------------------- Map / Set
\* A JavaScript Map keeps insertion order: a sequence of <<key, value>>.
MapHas(m, k) == \E i \in 1..Len(m) : m[i][1] = k
MapGet(m, k) ==
    IF MapHas(m, k)
    THEN m[CHOOSE i \in 1..Len(m) : m[i][1] = k][2]
    ELSE Undefined
MapSet(m, k, v) ==
    IF MapHas(m, k)
    THEN [i \in 1..Len(m) |-> IF m[i][1] = k THEN <<k, v>> ELSE m[i]]
    ELSE Append(m, <<k, v>>)
MapDelete(m, k) == SelectSeq(m, LAMBDA e : e[1] # k)
MapValues(m) == [i \in 1..Len(m) |-> m[i][2]]
MapKeys(m) == [i \in 1..Len(m) |-> m[i][1]]
\* new Map(data.map(item => [uniqueIdentifierCallback(item), item]))
RECURSIVE MapOf(_)
MapOf(data) ==
    IF data = <<>> THEN <<>>
    ELSE MapSet(MapOf(SubSeq(data, 1, Len(data) - 1)),
                uniqueIdentifierCallback(data[Len(data)]), data[Len(data)])
SeqDelete(s, x) == SelectSeq(s, LAMBDA e : e # x)
Range(s) == {s[i] : i \in 1..Len(s)}

\* ---------------------------------------------------------------- in-memory handlers
\* a == b on ids: a number equals the string that reads as it, null equals
\* undefined.
LooseEquals(a, b) ==
    \/ a = b
    \/ a.t = "num" /\ b.t = "str" /\ ToString(a.v) = b.v
    \/ a.t = "str" /\ b.t = "num" /\ a.v = ToString(b.v)
    \/ a.t \in {"null", "undefined"} /\ b.t \in {"null", "undefined"}

\* handleCreated: merge into the item with that id, or append.
handleCreated(prev, item) ==
    IF \E i \in 1..Len(prev) : LooseEquals(ItemId(prev[i]), ItemId(item))
    THEN [i \in 1..Len(prev) |->
            IF LooseEquals(ItemId(prev[i]), ItemId(item))
            THEN Spread(prev[i], item) ELSE prev[i]]
    ELSE Append(prev, item)

\* handleUpdated (list resource): merge the patch into the item with that id.
handleUpdated(prev, item) ==
    [i \in 1..Len(prev) |->
        IF LooseEquals(ItemId(prev[i]), ItemId(item))
        THEN Spread(prev[i], Rest(item)) ELSE prev[i]]

\* handleDestroyed (list resource): s.id !== delId.
handleDestroyed(prev, delId) == SelectSeq(prev, LAMBDA s : ItemId(s) # delId)

\* ---------------------------------------------------------------- remote adapter
\* The remote store behind the remote adapter: id -> item, or Null when absent.
RECURSIVE SortedSeq(_)
SortedSeq(S) ==
    IF S = {} THEN <<>>
    ELSE LET m == CHOOSE x \in S : \A y \in S : x <= y
         IN <<m>> \o SortedSeq(S \ {m})

\* actions.refresh for a list resource: the items the remote holds.
RemoteList(r) ==
    LET ids == SortedSeq({i \in DOMAIN r : r[i] # Null})
    IN [k \in 1..Len(ids) |-> r[ids[k]]]
RemoteStoreOp(r, item) == [r EXCEPT ![item.f.id.v] = item]
RemoteUpdateOp(r, id, patch) ==
    IF r[id.v] = Null THEN r ELSE [r EXCEPT ![id.v] = Spread(@, patch)]
RemoteDestroyOp(r, id) == [r EXCEPT ![id.v] = Null]

\* ---------------------------------------------------------------- cache adapter
\* A cache entry pairs the local snapshot with the remote snapshot of the
\* last sync; remote is Undefined while nothing changed locally since then.
NoEntry == [t |-> "none"]
Entry(local, remote) == [t |-> "entry", local |-> local, remote |-> remote]
IsPending(e) == e # NoEntry /\ e.remote # Undefined

CacheStoreOp(c, item) ==
    LET e == c[item.f.id.v]
    IN [c EXCEPT ![item.f.id.v] =
            IF e = NoEntry THEN Entry(item, Null)
            ELSE Entry(item, IF e.remote = Undefined THEN e.local ELSE e.remote)]
CacheUpdateOp(c, id, patch) ==
    LET e == c[id.v]
    IN IF e = NoEntry \/ e.local = Null THEN c
       ELSE [c EXCEPT ![id.v] =
               Entry(Spread(e.local, patch),
                     IF e.remote = Undefined THEN e.local ELSE e.remote)]
CacheDestroyOp(c, id) ==
    LET e == c[id.v]
    IN IF e = NoEntry \/ e.local = Null THEN c
       ELSE IF e.remote = Null THEN [c EXCEPT ![id.v] = NoEntry]
       ELSE [c EXCEPT ![id.v] =
               Entry(Null, IF e.remote = Undefined THEN e.local ELSE e.remote)]
\* sync(...ids): the entries become synced, local == remote.
CacheSyncOp(c, ids) ==
    [i \in DOMAIN c |->
        IF Num(i) \in ids /\ c[i] # NoEntry
        THEN IF c[i].local = Null THEN NoEntry ELSE Entry(c[i].local, Undefined)
        ELSE c[i]]
\* getCache(): every entry with its snapshots.
GetCache(c) ==
    LET ids == SortedSeq({i \in DOMAIN c : c[i] # NoEntry})
    IN [k \in 1..Len(ids) |-> [local |-> c[ids[k]].local, remote |-> c[ids[k]].remote]]
\* cache refresh for a list resource: the local snapshots.
CacheRefresh(c) ==
    LET ids == SortedSeq({i \in DOMAIN c : c[i] # NoEntry /\ c[i].local # Null})
    IN [k \in 1..Len(ids) |-> c[ids[k]].local]

\* ---------------------------------------------------------------- conflict handling
Return(value) == [kind |-> "return", value |-> value]
Throw(err) == [kind |-> "throw", error |-> err]

\* What a configured resolver may do with (local, common, remote).
ResolverChoices == {"local", "common", "remote", "null", "conflict", "error"}
\* ... and a resolver may answer with an item under another id.
ResolverAnswers == ResolverChoices \cup {"moved"}
Moved(item) == Spread(item, Obj([id |-> Num((item.f.id.v % MaxId) + 1)]))
conflictResolver(local, common, remote, choice) ==
    CASE choice = "local" -> Return(local)
      [] choice = "moved" -> Return(Moved(Coalesce(local, remote)))
      [] choice = "common" -> Return(common)
      [] choice = "remote" -> Return(remote)
      [] choice = "null" -> Return(Null)
      [] choice = "conflict" -> Throw("ConflictError")
      [] OTHER -> Throw("Error")

\* handleConflict: requireNotNull(local ?? remote), then the configured
\* resolver, or ConflictError when none is configured.
handleConflict(configured, local, common, remote, choice) ==
    IF Coalesce(local, remote) = Null
    THEN Throw("NullError")
    ELSE IF configured
         THEN conflictResolver(local, common, remote, choice)
         ELSE Throw("ConflictError")

\* ---------------------------------------------------------------- reconciliation
EmptyPlan(data) ==
    [map |-> MapOf(data), mapIds |-> MapKeys(MapOf(data)), syncIds |-> {},
     remoteStore |-> <<>>, remoteUpdate |-> <<>>, remoteDestroy |-> <<>>,
     localStore |-> <<>>, localUpdate |-> <<>>, localDestroy |-> <<>>,
     calls |-> <<>>, resolved |-> <<>>, skipped |-> {}, raised |-> {},
     thrown |-> "none"]

\* entry.remote?.id ?? entry.local!.id
SyncIdOf(entry) == Coalesce(entry.remote, entry.local).f.id

\* LocalWins without the branch for an item the remote never held.
LocalWinsNeverStores(acc, entry, id) ==
    IF entry.local = Null
    THEN [acc EXCEPT !.remoteDestroy = Append(@, Coalesce(entry.remote, entry.local).f.id),
                     !.map = MapDelete(@, id)]
    ELSE [acc EXCEPT !.remoteUpdate = Append(@, entry.local),
                     !.map = MapSet(@, id, entry.local)]

\* Remote unchanged since the last sync: the local entry has precedence.
LocalWins(acc, entry, id) ==
    IF entry.remote = Null
    THEN IF entry.local = Null
         THEN [acc EXCEPT !.thrown = "AssertionError"]
         ELSE [acc EXCEPT !.remoteStore = Append(@, entry.local),
                          !.map = MapSet(@, id, entry.local)]
    ELSE IF entry.local = Null
         THEN [acc EXCEPT !.remoteDestroy = Append(@, entry.remote.f.id),
                          !.map = MapDelete(@, id)]
         ELSE [acc EXCEPT !.remoteUpdate = Append(@, entry.local),
                          !.map = MapSet(@, id, entry.local)]

\* ResolveDelete that leaves the local snapshot alone.
ResolveDeleteRemoteOnly(acc, entry, id, remote) ==
    IF remote # Null
    THEN [acc EXCEPT !.remoteDestroy = Append(@, remote.f.id),
                     !.map = MapDelete(@, id)]
    ELSE acc

\* The resolver returned null: the item is deleted on both sides.
ResolveDelete(acc, entry, id, remote) ==
    LET a1 == IF remote # Null
              THEN [acc EXCEPT !.remoteDestroy = Append(@, remote.f.id),
                               !.map = MapDelete(@, id)]
              ELSE acc
    IN IF entry.local # Null
       THEN [a1 EXCEPT !.localDestroy = Append(@, entry.local.f.id)]
       ELSE a1

\* ResolveItem that never destroys under the old id.
ResolveItemKeepsOld(acc, entry, id, remote, resolution) ==
    LET resolutionId == uniqueIdentifierCallback(resolution)
        a1 == IF remote = Null \/ remote.f.id # resolution.f.id
              THEN [acc EXCEPT !.remoteStore = Append(@, resolution),
                               !.map = MapSet(@, resolutionId, resolution)]
              ELSE [acc EXCEPT !.remoteUpdate = Append(@, resolution),
                               !.map = MapSet(@, id, resolution)]
    IN IF entry.local = Null \/ entry.local.f.id # resolution.f.id
       THEN [a1 EXCEPT !.localStore = Append(@, resolution)]
       ELSE [a1 EXCEPT !.localUpdate = Append(@, resolution)]

\* The resolver returned an item: both sides are brought to it.
ResolveItem(acc, entry, id, remote, resolution) ==
    LET resolutionId == uniqueIdentifierCallback(resolution)
        a1 == IF remote = Null
              THEN [acc EXCEPT !.remoteStore = Append(@, resolution),
                               !.map = MapSet(@, resolutionId, resolution)]
              ELSE IF remote.f.id # resolution.f.id
                   THEN [acc EXCEPT !.remoteDestroy = Append(@, remote.f.id),
                                    !.remoteStore = Append(@, resolution),
                                    !.map = MapSet(MapDelete(@, id), resolutionId, resolution)]
                   ELSE [acc EXCEPT !.remoteUpdate = Append(@, resolution),
                                    !.map = MapSet(@, id, resolution)]
    IN IF entry.local = Null
       THEN [a1 EXCEPT !.localStore = Append(@, resolution)]
       ELSE IF entry.local.f.id # resolution.f.id
            THEN [a1 EXCEPT !.localDestroy = Append(@, entry.local.f.id),
                            !.localStore = Append(@, resolution)]
            ELSE [a1 EXCEPT !.localUpdate = Append(@, resolution)]

\* What handleConflict returned for an entry in conflict with the fetched item.
Resolution(entry, remote, resolution) ==
    [entry |-> entry, remote |-> remote, resolution |-> resolution]

\* Conflict without the 'continue' of the catch: a skipped entry falls through
\* to syncIds.add like a resolved one.
ConflictNoContinue(acc, entry, id, remote, configured, choice) ==
    LET r == handleConflict(configured, entry.local, entry.remote, remote, choice)
        a1 == [acc EXCEPT !.calls = Append(@, <<entry.local, entry.remote, remote>>)]
    IN IF r.kind = "throw"
       THEN IF r.error = "ConflictError"
            THEN [a1 EXCEPT !.skipped = @ \cup {id}, !.syncIds = @ \cup {SyncIdOf(entry)}]
            ELSE [a1 EXCEPT !.raised = @ \cup {id}, !.syncIds = @ \cup {SyncIdOf(entry)}]
       ELSE LET a2 == IF r.value = Null
                      THEN ResolveDelete(a1, entry, id, remote)
                      ELSE ResolveItem(a1, entry, id, remote, r.value)
            IN [a2 EXCEPT !.syncIds = @ \cup {SyncIdOf(entry)},
                          !.resolved = Append(@, Resolution(entry, remote, r.value))]

\* Both sides changed since the last sync: try/catch around handleConflict.
Conflict(acc, entry, id, remote, configured, choice) ==
    LET r == handleConflict(configured, entry.local, entry.remote, remote, choice)
        a1 == [acc EXCEPT !.calls = Append(@, <<entry.local, entry.remote, remote>>)]
    IN IF r.kind = "throw"
       THEN IF r.error = "ConflictError"
            THEN [a1 EXCEPT !.skipped = @ \cup {id}]
            ELSE [a1 EXCEPT !.raised = @ \cup {id}, !.syncIds = @ \cup {SyncIdOf(entry)}]
       ELSE LET a2 == IF r.value = Null
                      THEN ResolveDelete(a1, entry, id, remote)
                      ELSE ResolveItem(a1, entry, id, remote, r.value)
            IN [a2 EXCEPT !.syncIds = @ \cup {SyncIdOf(entry)},
                          !.resolved = Append(@, Resolution(entry, remote, r.value))]

\* RemoteWins without the comparison of the fetched item with the local one:
\* every unchanged entry is written again.
RemoteWinsNoCompare(acc, entry, remote) ==
    IF remote = Null
    THEN [acc EXCEPT !.localDestroy = Append(@, entry.local.f.id)]
    ELSE [acc EXCEPT !.localUpdate = Append(@, remote)]

\* Nothing changed locally since the last sync: the remote item has precedence.
RemoteWins(acc, entry, remote) ==
    IF ~deepEquals(remote, entry.local, "strict")
    THEN IF remote = Null
         THEN [acc EXCEPT !.localDestroy = Append(@, entry.local.f.id)]
         ELSE [acc EXCEPT !.localUpdate = Append(@, remote)]
    ELSE acc

\* ClassifyEntry without the comparison of the last-synced snapshot with the
\* fetched item: every pending entry goes to conflict handling.
ClassifyEntryNoCompare(acc, entry, configured, choice) ==
    LET id == uniqueIdentifierCallback(Coalesce(entry.remote, entry.local))
        a0 == [acc EXCEPT !.mapIds = SeqDelete(@, id)]
        remote == Coalesce(MapGet(acc.map, id), Null)
    IN IF acc.thrown # "none" THEN acc
       ELSE IF entry.remote # Undefined
       THEN Conflict(a0, entry, id, remote, configured, choice)
       ELSE RemoteWins(a0, entry, remote)

\* One iteration of the loop over the cache entries.
ClassifyEntry(acc, entry, configured, choice) ==
    LET id == uniqueIdentifierCallback(Coalesce(entry.remote, entry.local))
        a0 == [acc EXCEPT !.mapIds = SeqDelete(@, id)]
        remote == Coalesce(MapGet(acc.map, id), Null)
    IN IF acc.thrown # "none" THEN acc
       ELSE IF entry.remote # Undefined
       THEN IF deepEquals(entry.remote, remote, "strict")
            THEN LET a1 == LocalWins(a0, entry, id)
                 IN IF a1.thrown # "none" THEN a1
                    ELSE [a1 EXCEPT !.syncIds = @ \cup {SyncIdOf(entry)}]
            ELSE Conflict(a0, entry, id, remote, configured, choice)
       ELSE RemoteWins(a0, entry, remote)

RECURSIVE ClassifyAll(_, _, _, _)
ClassifyAll(acc, entries, configured, choices) ==
    IF entries = <<>> THEN acc
    ELSE ClassifyAll(
            ClassifyEntry(acc, Head(entries), configured,
                          choices[Coalesce(Head(entries).remote, Head(entries).local).f.id.v]),
            Tail(entries), configured, choices)

\* StoreNew that stores every item of the merged map locally.
StoreNewAll(acc, ids) == [acc EXCEPT !.localStore = @ \o MapValues(acc.map)]

\* StoreNew without the loop over the remaining identities.
StoreNewNothing(acc, ids) == acc

\* Every remote item matched by no cache entry is stored locally.
RECURSIVE StoreNew(_, _)
StoreNew(acc, ids) ==
    IF ids = <<>> THEN acc
    ELSE StoreNew([acc EXCEPT !.localStore = Append(@, MapGet(acc.map, Head(ids)))],
                  Tail(ids))

\* The plan of a pass: classification loop, then the new remote items.
Reconcile(entries, data, configured, choices) ==
    LET acc == ClassifyAll(EmptyPlan(data), entries, configured, choices)
    IN IF acc.thrown # "none" THEN acc ELSE StoreNew(acc, acc.mapIds)

\* ---------------------------------------------------------------- dispatch
Write(side, op, args, batch) == [side |-> side, op |-> op, args |-> args, batch |-> batch]
Each(side, op, list) == [k \in 1..Len(list) |-> Write(side, op, <<list[k]>>, FALSE)]
\* Batch that hands the batch call the first item only.
BatchFirstOnly(side, op, list) ==
    IF Len(list) > 0 THEN <<Write(side, op, <<Head(list)>>, TRUE)>> ELSE <<>>
Batch(side, op, list) == IF Len(list) > 0 THEN <<Write(side, op, list, TRUE)>> ELSE <<>>

\* The calls handed to Promise.all, in the order they are issued.
Dispatch(plan, batchSync) ==
    IF batchSync
    THEN Batch("remote", "store", plan.remoteStore)
         \o Batch("remote", "update", plan.remoteUpdate)
         \o Batch("remote", "destroy", plan.remoteDestroy)
         \o Batch("local", "store", plan.localStore)
         \o Batch("local", "update", plan.localUpdate)
         \o Batch("local", "destroy", plan.localDestroy)
    ELSE Each("remote", "store", plan.remoteStore)
         \o Each("remote", "update", plan.remoteUpdate)
         \o Each("remote", "destroy", plan.remoteDestroy)
         \o Each("local", "store", plan.localStore)
         \o Each("local", "update", plan.localUpdate)
         \o Each("local", "destroy", plan.localDestroy)

\* The ids handed to cacheActions.sync after the writes.
SyncIds(plan) ==
    plan.syncIds \cup {plan.localStore[k].f.id : k \in 1..Len(plan.localStore)}
                 \cup {plan.localUpdate[k].f.id : k \in 1..Len(plan.localUpdate)}
                 \cup Range(plan.localDestroy)

\* The effect of one adapter call on the store it addresses.
RECURSIVE ApplyArgs(_, _, _, _)
ApplyArgs(store, side, op, args) ==
    IF args = <<>> THEN store
    ELSE LET x == Head(args)
             next ==
                CASE side = "remote" /\ op = "store" -> RemoteStoreOp(store, x)
                  [] side = "remote" /\ op = "update" -> RemoteUpdateOp(store, x.f.id, Rest(x))
                  [] side = "remote" /\ op = "destroy" -> RemoteDestroyOp(store, x)
                  [] side = "local" /\ op = "store" -> CacheStoreOp(store, x)
                  [] side = "local" /\ op = "update" -> CacheUpdateOp(store, x.f.id, Rest(x))
                  [] OTHER -> CacheDestroyOp(store, x)
         IN ApplyArgs(next, side, op, Tail(args))
ApplyWrite(store, w) == ApplyArgs(store, w.side, w.op, w.args)

\* The identities one dispatched call writes.
WriteIds(w) == {IF w.op = "destroy" THEN w.args[k] ELSE w.args[k].f.id : k \in 1..Len(w.args)}

\* A remote update of an item the remote does not hold cannot succeed.
CanSucceed(r, w) ==
    w.side = "remote" /\ w.op = "update"
        => \A k \in 1..Len(w.args) : r[w.args[k].f.id.v] # Null

\* ---------------------------------------------------------------- state
VARIABLES
    remote,     \* the remote store: id -> item or Null
    cache,      \* the cache: id -> entry or NoEntry
    state,      \* the in-memory state of the hook (localState)
    meta,       \* useState meta
    error,      \* useState error
    loading,    \* useState loading
    passes,     \* the refresh passes, in the order they start
    mut,        \* the caller-issued mutation in flight
    config,     \* the factory configuration
    budget,     \* what the environment may still do
    invocation  \* a call of one of the exported utility functions

vars == <<remote, cache, state, meta, error, loading, passes, mut, config, budget, invocation>>
hook == <<state, meta, error, loading>>

Arr(s) == [t |-> "arr", f |-> s]
Str(x) == [t |-> "str", v |-> x]
Err(name) == [t |-> "error", name |-> name]

Response(data, m, e) == [data |-> data, meta |-> m, error |-> e]

IdlePass ==
    [pc |-> "idle", trigger |-> "none", signal |-> FALSE, aborted |-> FALSE,
     enabled |-> FALSE, response |-> Response(Null, Null, Null),
     entries |-> <<>>, plan |-> EmptyPlan(<<>>), reconciled |-> FALSE,
     writes |-> <<>>, pending |-> {}, ok |-> {}, failed |-> {},
     fetch |-> "none", outcome |-> "none", thrown |-> "none",
     committed |-> FALSE, clean |-> TRUE, wrote |-> {}]

\* A pass that has ended keeps what is still in flight and how it ended; the
\* locals of the call are gone.
Ended(pass, outcome, thrown, committed) ==
    [IdlePass EXCEPT
        !.pc = "done", !.trigger = pass.trigger, !.signal = pass.signal,
        !.aborted = pass.aborted, !.enabled = pass.enabled,
        !.reconciled = pass.reconciled, !.fetch = pass.fetch,
        !.writes = IF pass.failed = {} THEN <<>> ELSE pass.writes,
        !.pending = pass.pending,
        !.ok = IF pass.failed = {} THEN {} ELSE pass.ok,
        !.failed = pass.failed,
        !.plan = [EmptyPlan(<<>>) EXCEPT !.skipped = pass.plan.skipped,
                                          !.raised = pass.plan.raised],
        !.outcome = outcome, !.thrown = thrown, !.committed = committed,
        !.clean = pass.clean, !.wrote = pass.wrote]

IdleMut ==
    [pc |-> "idle", kind |-> "none", id |-> Null, item |-> Null,
     method |-> "none", cache |-> FALSE, cacheResult |-> Undefined,
     result |-> Undefined, detached |-> <<>>, outcome |-> "none",
     during |-> {}, remote |-> "none"]

InFlight(p) == passes[p].pc \notin {"idle", "done"}

\* No utility function is being called.
NoCall == [fn |-> "none", pc |-> "idle"]

\* An entry the cache can hold: never both snapshots null.
Entries(i) ==
    {NoEntry}
    \cup {Entry(l, r) : l \in ItemsOf(i), r \in ItemsOf(i) \cup {Null, Undefined}}
    \cup {Entry(Null, r) : r \in ItemsOf(i)}

\* Names are interchangeable, so of the worlds that differ only by renaming
\* one is kept: the names of an identity appear in the order 1, 2, ...
NameOf(x) == IF x \in {Null, Undefined} THEN 0 ELSE x.f.name.v
Max(a, b) == IF a > b THEN a ELSE b
Canonical(r, e) ==
    LET n1 == NameOf(r)
        n2 == IF e = NoEntry THEN 0 ELSE NameOf(e.local)
        n3 == IF e = NoEntry THEN 0 ELSE NameOf(e.remote)
    IN /\ n1 <= 1
       /\ n2 <= n1 + 1
       /\ n3 <= Max(n1, n2) + 1

\* adapter: a cache adapter is configured; batchSync: cacheConfig.batchSync;
\* resolver: a conflictResolver is configured.
Configs ==
    {c \in [adapter : BOOLEAN, batchSync : BOOLEAN, resolver : BOOLEAN] :
        ~c.adapter => (~c.batchSync /\ ~c.resolver)}

\* After construction: useState([]) / useState(null) / useState(autoRefresh);
\* the remote store and the persistent cache hold whatever earlier sessions left.
World ==
    /\ config \in Configs
    /\ remote \in [Ids -> Items \cup {Null}]
    /\ \A i \in Ids : remote[i] \in ItemsOf(i) \cup {Null}
    /\ cache \in [Ids -> UNION {Entries(i) : i \in Ids}]
    /\ \A i \in Ids : cache[i] \in Entries(i)
    /\ (~config.adapter => \A i \in Ids : cache[i] = NoEntry)
    /\ \A i \in Ids : Canonical(remote[i], cache[i])
    /\ state = Arr(<<>>)
    /\ meta = Null
    /\ error = Null
    /\ loading = TRUE
    /\ passes = [p \in PassIds |-> IdlePass]
    /\ mut = IdleMut
    /\ invocation = NoCall

\* The operations the environment may start; no push event arrives.
InitWith(ops, overlap) ==
    /\ World
    /\ budget = [ops |-> ops, mutations |-> MaxMutations, overlap |-> overlap,
                 events |-> 0]

\* One operation (a refresh pass or a mutation) from any such world.
Init == InitWith(MaxOps, FALSE)

\* Nothing else is in flight, unless operations may overlap.
MayStart ==
    /\ budget.ops > 0
    /\ budget.overlap \/ (mut.pc \in {"idle", "done"} /\ \A q \in PassIds : ~InFlight(q))

\* ---------------------------------------------------------------- refresh
\* options?.signal?.aborted
Aborted(pass) == pass.signal /\ pass.aborted

\* Commit without the check of the signal after the last await.
CommitUnchecked(ps, p, pass, response) ==
    /\ passes' = [ps EXCEPT ![p] = Ended(pass, "resolved", "none", TRUE)]
    /\ meta' = response.meta
    /\ state' = response.data
    /\ error' = response.error
    /\ loading' = FALSE

\* if (aborted) return; setMeta; setState; setError; finally setLoading(false)
Commit(ps, p, pass, response) ==
    IF Aborted(pass)
    THEN /\ passes' = [ps EXCEPT ![p] = Ended(pass, "resolved", "none", FALSE)]
         /\ UNCHANGED hook
    ELSE /\ passes' = [ps EXCEPT ![p] = Ended(pass, "resolved", "none", TRUE)]
         /\ meta' = response.meta
         /\ state' = response.data
         /\ error' = response.error
         /\ loading' = FALSE

\* Fail with a catch that swallows every error, aborted or not.
FailSwallowed(ps, p, pass, err) ==
    /\ passes' = [ps EXCEPT ![p] = Ended(pass, "resolved", "none", FALSE)]
    /\ loading' = IF Aborted(pass) THEN loading ELSE FALSE
    /\ UNCHANGED <<state, meta, error>>

\* catch (e) { if (!aborted) throw e } finally { if (!aborted) setLoading(false) }
Fail(ps, p, pass, err) ==
    IF Aborted(pass)
    THEN /\ passes' = [ps EXCEPT ![p] = Ended(pass, "resolved", "none", FALSE)]
         /\ UNCHANGED hook
    ELSE /\ passes' = [ps EXCEPT ![p] = Ended(pass, "rejected", err, FALSE)]
         /\ loading' = FALSE
         /\ UNCHANGED <<state, meta, error>>

\* refresh(options) up to its first await.  An effect-triggered pass ("auto")
\* carries the signal of a fresh AbortController, and the cleanup of the
\* previous effect aborts the earlier one; refresh() called by the caller or
\* by the offline listener ("manual") carries no signal.  enabled is
\* options.cache.enabled ?? cacheConfig.defaultEnabled ?? false, preferOffline
\* is options.cache.preferOffline ?? cacheConfig.preferOffline ?? false.
StartPass(p, trigger, enabled, preferOffline) ==
    /\ passes[p].pc = "idle"
    /\ \A q \in PassIds : q < p => passes[q].pc # "idle"
    /\ MayStart
    /\ passes' = [q \in PassIds |->
            IF q = p
            THEN [IdlePass EXCEPT
                    !.pc = IF preferOffline /\ config.adapter THEN "preferOffline" ELSE "fetch",
                    !.trigger = trigger, !.signal = (trigger = "auto"),
                    !.enabled = enabled]
            ELSE IF trigger = "auto" /\ passes[q].signal /\ InFlight(q)
                 THEN [passes[q] EXCEPT !.aborted = TRUE]
                 ELSE passes[q]]
    /\ error' = Null
    /\ loading' = TRUE
    /\ budget' = [budget EXCEPT !.ops = @ - 1]
    /\ UNCHANGED <<remote, cache, state, meta, mut, config, invocation>>

\* preferOffline: the cache snapshot is served when it is not empty.
PreferOffline(p) ==
    /\ passes[p].pc = "preferOffline"
    /\ LET response == Response(Arr(CacheRefresh(cache)), Null, Null)
       IN IF Len(response.data.f) > 0
          THEN Commit(passes, p, passes[p], response)
          ELSE /\ passes' = [passes EXCEPT ![p].pc = "fetch"]
               /\ UNCHANGED hook
    /\ UNCHANGED <<remote, cache, mut, config, invocation, budget>>

\* actions.refresh settles.
Fetch(p, outcome) ==
    /\ passes[p].pc = "fetch"
    /\ LET pass == [passes[p] EXCEPT !.fetch = outcome]
       IN CASE outcome = "ok" ->
                LET response == Response(Arr(RemoteList(remote)), Str("meta"), Null)
                IN IF pass.enabled /\ config.adapter
                   THEN /\ passes' = [passes EXCEPT ![p] =
                                [pass EXCEPT !.pc = "getCache", !.response = response]]
                        /\ UNCHANGED hook
                   ELSE Commit(passes, p, pass, response)
            [] outcome = "offline" ->
                IF config.adapter
                THEN /\ passes' = [passes EXCEPT ![p] = [pass EXCEPT !.pc = "fallback"]]
                     /\ UNCHANGED hook
                ELSE Commit(passes, p, pass, Response(Null, Null, Err("originalError")))
            [] OTHER -> Fail(passes, p, pass, "Error")
    /\ UNCHANGED <<remote, cache, mut, config, invocation, budget>>

\* Another actor wrote the cache or the remote while pass q was in flight.
Disturb(ps, p) ==
    [q \in PassIds |->
        IF q # p /\ ps[q].pc \notin {"idle", "done"}
        THEN [ps[q] EXCEPT !.clean = FALSE]
        ELSE ps[q]]

\* cacheActions.getCache() settles; the classification loop runs and the
\* writes of the plan are issued.
GetCacheDone(p, choices) ==
    /\ passes[p].pc = "getCache"
    /\ \A i \in Ids : (~config.resolver \/ ~IsPending(cache[i])) => choices[i] = "conflict"
    /\ LET entries == GetCache(cache)
           plan == Reconcile(entries, passes[p].response.data.f, config.resolver, choices)
           writes == Dispatch(plan, config.batchSync)
           pass == [passes[p] EXCEPT !.entries = entries, !.plan = plan,
                                     !.reconciled = TRUE]
       IN IF plan.thrown # "none"
          THEN Fail(passes, p, pass, plan.thrown)
          ELSE /\ passes' = [passes EXCEPT ![p] =
                        [pass EXCEPT !.pc = IF writes = <<>> THEN "sync" ELSE "dispatch",
                                     !.writes = writes,
                                     !.pending = 1..Len(writes)]]
               /\ UNCHANGED hook
    /\ UNCHANGED <<remote, cache, mut, config, invocation, budget>>

\* One of the calls handed to Promise.all settles.  The first rejection
\* rejects Promise.all while the other calls stay in flight.
WriteLands(p, k, outcome) ==
    /\ k \in passes[p].pending
    /\ LET w == passes[p].writes[k]
           pass == [passes[p] EXCEPT
                        !.pending = @ \ {k},
                        !.ok = IF outcome = "ok" THEN @ \cup {k} ELSE @,
                        !.failed = IF outcome = "ok" THEN @ ELSE @ \cup {k},
                        !.wrote = IF outcome = "ok" /\ w.side = "remote"
                                  THEN @ \cup WriteIds(w) ELSE @]
           others == Disturb(passes, p)
       IN /\ w.side = "local" => outcome = "ok"
          /\ outcome = "ok" => CanSucceed(remote, w)
          /\ remote' = IF w.side = "remote" /\ outcome = "ok"
                       THEN ApplyWrite(remote, w) ELSE remote
          /\ cache' = IF w.side = "local" THEN ApplyWrite(cache, w) ELSE cache
          /\ IF passes[p].pc # "dispatch"
             THEN /\ passes' = [others EXCEPT ![p] = pass]
                  /\ UNCHANGED hook
             ELSE CASE outcome = "ok" ->
                        /\ passes' = [others EXCEPT ![p] =
                                [pass EXCEPT !.pc = IF pass.pending = {}
                                                    THEN "sync" ELSE "dispatch"]]
                        /\ UNCHANGED hook
                    [] outcome = "offline" ->
                        /\ passes' = [others EXCEPT ![p] = [pass EXCEPT !.pc = "fallback"]]
                        /\ UNCHANGED hook
                    [] OTHER -> Fail(others, p, pass, "Error")
    /\ UNCHANGED <<mut, config, invocation, budget>>

\* cacheActions.sync(...syncIds) settles; the merged map is the result.
SyncDone(p) ==
    /\ passes[p].pc = "sync"
    /\ cache' = CacheSyncOp(cache, SyncIds(passes[p].plan))
    /\ Commit(Disturb(passes, p), p, passes[p],
              [passes[p].response EXCEPT !.data = Arr(MapValues(passes[p].plan.map))])
    /\ UNCHANGED <<remote, mut, config, invocation, budget>>

\* catch (e instanceof OfflineError): cacheActions.refresh settles.
Fallback(p) ==
    /\ passes[p].pc = "fallback"
    /\ Commit(passes, p, passes[p], Response(Arr(CacheRefresh(cache)), Null, Null))
    /\ UNCHANGED <<remote, cache, mut, config, invocation, budget>>

\* The cleanup of the autoRefresh effect when the component unmounts:
\* abortController.abort(), and the caller starts nothing more.
Abort(p) ==
    /\ InFlight(p)
    /\ passes[p].signal
    /\ ~passes[p].aborted
    /\ passes' = [passes EXCEPT ![p].aborted = TRUE]
    /\ budget' = [budget EXCEPT !.ops = 0]
    /\ UNCHANGED <<remote, cache, state, meta, error, loading, mut, config, invocation>>

\* ---------------------------------------------------------------- mutations
\* The caller's own object: store with 'immediate' finds it again by reference.
Tagged(item) == [t |-> "obj", f |-> item.f, ref |-> "item"]

\* setState(prev => ...) of the three handlers.  On a state that is no array
\* handleCreated throws inside the updater, handleUpdated spreads the patch
\* over it and handleDestroyed leaves null.
Created(s, item) == IF s.t = "arr" THEN Arr(handleCreated(s.f, item)) ELSE s
Updated(s, item) ==
    CASE s.t = "arr" -> Arr(handleUpdated(s.f, item))
      [] s.t = "obj" -> Spread(s, Rest(item))
      [] OTHER -> Rest(item)
Destroyed(s, delId) == IF s.t = "arr" THEN Arr(handleDestroyed(s.f, delId)) ELSE Null

\* setState(prev => prev.map(i => i === item ? result : i))
Replaced(s, item, result) ==
    IF s.t = "arr"
    THEN Arr([k \in 1..Len(s.f) |-> IF s.f[k] = Tagged(item) THEN result ELSE s.f[k]])
    ELSE s

Optimistic(kind, s, item) ==
    CASE kind = "store" -> Created(s, Tagged(item))
      [] kind = "update" -> Updated(s, item)
      [] OTHER -> Destroyed(s, item.f.id)

\* The in-memory change once the promise of store / update has resolved.
Settle(m, s, result) ==
    CASE m.kind = "store" /\ m.method = "on-success" -> Created(s, result)
      [] m.kind = "store" -> Replaced(s, m.item, result)
      [] OTHER -> Updated(s, result)

Finished(m, outcome) == [m EXCEPT !.pc = "done", !.outcome = outcome]

\* store(item, options), update(id, update, options), destroy(id, options) of a
\* list resource, up to the first await.  destroy awaits none of its adapter
\* calls: they are left in flight and the item leaves the state at once.
MutStart(kind, item, method, cacheOn) ==
    /\ mut.pc \in {"idle", "done"}
    /\ MayStart
    /\ budget.mutations > 0
    /\ budget' = [budget EXCEPT !.ops = @ - 1, !.mutations = @ - 1]
    /\ LET m == [IdleMut EXCEPT !.kind = kind, !.id = ItemId(item), !.item = item,
                                !.method = method, !.cache = (cacheOn /\ config.adapter),
                                !.during = {p \in PassIds : passes[p].pc = "dispatch"}]
       IN CASE method = "local-only" ->
                /\ mut' = Finished(m, "resolved")
                /\ state' = Optimistic(kind, state, item)
            [] method # "local-only" /\ kind = "destroy" ->
                /\ mut' = [m EXCEPT !.pc = "detached",
                                   !.detached = IF m.cache
                                                THEN <<"destroy", "sync", "remote">>
                                                ELSE <<"remote">>]
                /\ state' = Optimistic(kind, state, item)
            [] OTHER ->
                /\ mut' = [m EXCEPT !.pc = IF m.cache THEN "cache" ELSE "remote"]
                /\ state' = IF method = "immediate"
                            THEN Optimistic(kind, state, item) ELSE state
    /\ UNCHANGED <<remote, cache, meta, error, loading, passes, config, invocation>>

\* cacheActions.store / cacheActions.update settles.
MutCacheDone ==
    /\ mut.pc = "cache"
    /\ cache' = IF mut.kind = "store"
                THEN CacheStoreOp(cache, mut.item)
                ELSE CacheUpdateOp(cache, mut.id, Rest(mut.item))
    /\ mut' = [mut EXCEPT !.pc = "remote",
                          !.cacheResult = IF cache'[mut.id.v] = NoEntry
                                          THEN Undefined ELSE cache'[mut.id.v].local]
    /\ passes' = Disturb(passes, 0)
    /\ UNCHANGED <<remote, state, meta, error, loading, config, invocation, budget>>

\* actions.store / actions.update settles; mut.remote keeps how.
MutRemoteDone(outcome) ==
    /\ mut.pc = "remote"
    /\ LET w == Write("remote", mut.kind, <<mut.item>>, FALSE)
           r == IF outcome = "ok" THEN ApplyWrite(remote, w) ELSE remote
           result == IF outcome = "ok" THEN r[mut.id.v] ELSE mut.cacheResult
           m == [mut EXCEPT !.remote = outcome]
       IN /\ outcome = "ok" => CanSucceed(remote, w)
          /\ remote' = r
          /\ CASE outcome = "ok" /\ mut.cache ->
                    /\ mut' = [m EXCEPT !.pc = "sync", !.result = result]
                    /\ state' = state
               [] outcome = "error" \/ (outcome = "offline" /\ mut.cacheResult \in {Null, Undefined}) ->
                    /\ mut' = Finished(m, "rejected")
                    /\ state' = state
               [] OTHER ->
                    /\ mut' = Finished([m EXCEPT !.result = result], "resolved")
                    /\ state' = Settle(mut, state, result)
    /\ passes' = IF outcome = "ok" THEN Disturb(passes, 0) ELSE passes
    /\ UNCHANGED <<cache, meta, error, loading, config, invocation, budget>>

\* cacheActions.sync(id) of store / update settles.
MutSyncDone ==
    /\ mut.pc = "sync"
    /\ cache' = CacheSyncOp(cache, {mut.id})
    /\ mut' = Finished(mut, "resolved")
    /\ state' = Settle(mut, state, mut.result)
    /\ passes' = Disturb(passes, 0)
    /\ UNCHANGED <<remote, meta, error, loading, config, invocation, budget>>

\* One of the calls destroy left in flight settles: the cache adapter serves
\* destroy before sync, the remote call settles at any time.
MutDetached(k, outcome) ==
    /\ mut.pc = "detached"
    /\ k \in 1..Len(mut.detached)
    /\ LET call == mut.detached[k]
           rest == [j \in 1..(Len(mut.detached) - 1) |->
                        IF j < k THEN mut.detached[j] ELSE mut.detached[j + 1]]
       IN /\ call = "remote" \/ (k = 1 /\ outcome = "ok")
          /\ remote' = IF call = "remote" /\ outcome = "ok"
                       THEN RemoteDestroyOp(remote, mut.id) ELSE remote
          /\ cache' = CASE call = "destroy" -> CacheDestroyOp(cache, mut.id)
                        [] call = "sync" -> CacheSyncOp(cache, {mut.id})
                        [] OTHER -> cache
          /\ mut' = LET m == [mut EXCEPT !.detached = rest,
                                             !.remote = IF call = "remote" THEN outcome ELSE @]
                    IN IF rest = <<>> THEN Finished(m, "resolved") ELSE m
    /\ passes' = Disturb(passes, 0)
    /\ UNCHANGED <<state, meta, error, loading, config, invocation, budget>>

Next ==
    \/ \E p \in PassIds, trigger \in {"auto", "manual"},
          enabled \in BOOLEAN, preferOffline \in BOOLEAN :
            StartPass(p, trigger, enabled, preferOffline)
    \/ \E p \in PassIds : PreferOffline(p)
    \/ \E p \in PassIds, outcome \in {"ok", "offline", "error"} : Fetch(p, outcome)
    \/ \E p \in PassIds, choices \in [Ids -> ResolverChoices] : GetCacheDone(p, choices)
    \/ \E p \in PassIds, k \in 1..(3 * MaxId), outcome \in {"ok", "offline", "error"} :
            WriteLands(p, k, outcome)
    \/ \E p \in PassIds : SyncDone(p)
    \/ \E p \in PassIds : Fallback(p)
    \/ \E p \in PassIds : Abort(p)
    \/ \E kind \in {"store", "update", "destroy"}, item \in Items,
          method \in {"on-success", "immediate", "local-only"}, cacheOn \in BOOLEAN :
            MutStart(kind, item, method, cacheOn)
    \/ MutCacheDone
    \/ \E outcome \in {"ok", "offline", "error"} : MutRemoteDone(outcome)
    \/ MutSyncDone
    \/ \E k \in 1..3, outcome \in {"ok", "offline", "error"} : MutDetached(k, outcome)

Spec == Init /\ [][Next]_vars

\* Two overlapping operations: two refresh passes, or a refresh pass and a
\* mutation of the caller, interleave freely.  No resolver is configured, writes
\* are itemized, and the second identity starts absent from both stores.
InitConcurrent ==
    /\ InitWith(MaxConcurrentOps, TRUE)
    /\ config = [adapter |-> TRUE, batchSync |-> FALSE, resolver |-> FALSE]
    /\ \A i \in Ids \ {1} : remote[i] = Null /\ cache[i] = NoEntry

SpecConcurrent == InitConcurrent /\ [][Next]_vars

\* Refresh called again and again by the caller or by the offline listener,
\* with the cache enabled: passes that carry no signal and do not overlap.
\* A cache adapter with itemized writes and no resolver is configured.
InitRepeated ==
    /\ InitWith(MaxPasses, FALSE)
    /\ config = [adapter |-> TRUE, batchSync |-> FALSE, resolver |-> FALSE]

NextRepeated ==
    \/ \E p \in PassIds : StartPass(p, "manual", TRUE, FALSE)
    \/ \E p \in PassIds, outcome \in {"ok", "offline", "error"} : Fetch(p, outcome)
    \/ \E p \in PassIds, choices \in [Ids -> ResolverChoices] : GetCacheDone(p, choices)
    \/ \E p \in PassIds, k \in 1..(3 * MaxId), outcome \in {"ok", "offline", "error"} :
            WriteLands(p, k, outcome)
    \/ \E p \in PassIds : SyncDone(p)
    \/ \E p \in PassIds : Fallback(p)

SpecRepeated == InitRepeated /\ [][NextRepeated]_vars

\* One refresh pass with the cache enabled and a resolver configured that may
\* answer anything: either snapshot, the fetched item, null, an item under
\* another id, or an error.
InitResolver ==
    /\ InitWith(MaxOps, FALSE)
    /\ config.adapter
    /\ config.resolver

NextResolver ==
    \/ \E p \in PassIds, trigger \in {"auto", "manual"} : StartPass(p, trigger, TRUE, FALSE)
    \/ \E p \in PassIds, outcome \in {"ok", "offline", "error"} : Fetch(p, outcome)
    \/ \E p \in PassIds, choices \in [Ids -> ResolverAnswers] : GetCacheDone(p, choices)
    \/ \E p \in PassIds, k \in 1..(3 * MaxId), outcome \in {"ok", "offline", "error"} :
            WriteLands(p, k, outcome)
    \/ \E p \in PassIds : SyncDone(p)
    \/ \E p \in PassIds : Fallback(p)

SpecResolver == InitResolver /\ [][NextResolver]_vars

\* The remote is offline while the caller issues one mutation with the cache
\* enabled; then connectivity is back, the offline listener calls refresh()
\* and every remote call succeeds.  The session starts in sync: the cache holds
\* what the remote holds and nothing is pending.
InitOffline ==
    /\ InitWith(MaxConcurrentOps, FALSE)
    /\ config.adapter
    /\ ~config.resolver
    /\ \A i \in Ids :
        cache[i] = IF remote[i] = Null THEN NoEntry ELSE Entry(remote[i], Undefined)

\* addOfflineListener(offline => { if (!offline) refresh() }): the pass runs
\* with cache.enabled = cacheConfig.defaultEnabled ?? false.
OfflineListener(p, defaultEnabled) ==
    /\ mut.pc = "done"
    /\ StartPass(p, "manual", defaultEnabled, FALSE)

\* One of the calls destroy left in flight settles while the remote is offline.
MutDetachedOffline(k, outcome) ==
    /\ mut.pc = "detached"
    /\ k \in 1..Len(mut.detached)
    /\ (mut.detached[k] = "remote") <=> (outcome = "offline")
    /\ MutDetached(k, outcome)

\* The adapter calls of the mutation and of the pass settle, and the listener
\* is called.
Answered ==
    \/ MutCacheDone
    \/ MutRemoteDone("offline")
    \/ \E k \in 1..3, outcome \in {"ok", "offline"} : MutDetachedOffline(k, outcome)
    \/ \E p \in PassIds, defaultEnabled \in BOOLEAN : OfflineListener(p, defaultEnabled)
    \/ \E p \in PassIds : Fetch(p, "ok")
    \/ \E p \in PassIds, k \in 1..(3 * MaxId) : WriteLands(p, k, "ok")
    \/ \E p \in PassIds : SyncDone(p)

NextOffline ==
    \/ \E kind \in {"store", "update", "destroy"}, item \in Items,
          method \in {"on-success", "immediate"} :
            MutStart(kind, item, method, TRUE)
    \/ \E p \in PassIds, choices \in [Ids -> ResolverChoices] : GetCacheDone(p, choices)
    \/ Answered

\* getCache is answered as well: no pass waits for it forever.  (GetCacheDone
\* is enabled exactly while a pass waits for getCache, so this is its weak
\* fairness.)
GetCacheAnswered == []<>(\A p \in PassIds : passes[p].pc # "getCache")

\* Every call is answered and the listener is told that connectivity is back.
SpecOffline ==
    InitOffline /\ [][NextOffline]_vars /\ WF_vars(Answered) /\ GetCacheAnswered

\* ---------------------------------------------------------------- push events
\* The remote gives an item stored without an id the lowest id it has free.
FreeIds(r) == {i \in Ids : r[i] = Null}
AssignId(r, item) ==
    IF "id" \in DOMAIN item.f THEN item
    ELSE Spread(item, Obj([id |-> Num(CHOOSE i \in FreeIds(r) :
                                          \A j \in FreeIds(r) : i <= j)]))

\* actions.store / actions.update seen in two steps: the remote has written
\* and the answer is on its way back (no cache is involved) ...
MutRemoteLands ==
    /\ mut.pc = "remote"
    /\ ~mut.cache
    /\ ItemId(mut.item) = Undefined => FreeIds(remote) # {}
    /\ LET item == AssignId(remote, mut.item)
           w == Write("remote", mut.kind, <<item>>, FALSE)
       IN /\ CanSucceed(remote, w)
          /\ remote' = ApplyWrite(remote, w)
          /\ mut' = [mut EXCEPT !.pc = "response", !.remote = "ok",
                                !.result = remote'[item.f.id.v]]
    /\ passes' = Disturb(passes, 0)
    /\ UNCHANGED <<cache, state, meta, error, loading, config, invocation, budget>>

\* ... and the answer arrives: the promise resolves and the state is updated.
MutResponse ==
    /\ mut.pc = "response"
    /\ mut' = Finished(mut, "resolved")
    /\ state' = Settle(mut, state, mut.result)
    /\ UNCHANGED <<remote, cache, meta, error, loading, passes, config, invocation, budget>>

\* The handler of an event runs: nothing happens while loading.
Pushed(s) ==
    /\ budget.events > 0
    /\ budget' = [budget EXCEPT !.events = @ - 1]
    /\ state' = IF loading THEN state ELSE s
    /\ UNCHANGED <<remote, cache, meta, error, loading, passes, mut, config, invocation>>

\* An id as a transport that carries ids as text delivers it.
AsText(id) == Str(ToString(id.v))
Sent(item, asText) ==
    IF asText THEN Spread(item, Obj([id |-> AsText(item.f.id)])) ELSE item

\* useEvent "created" / "updated" / "destroyed" of a list resource: the remote
\* announces an item it holds, or the id of one it no longer holds, with the
\* id as a number or as text.
PushCreated(item, asText) ==
    /\ remote[item.f.id.v] = item
    /\ Pushed(Created(state, Sent(item, asText)))
PushUpdated(item, asText) ==
    /\ remote[item.f.id.v] = item
    /\ Pushed(Updated(state, Sent(item, asText)))
PushDestroyed(delId, asText) ==
    /\ remote[delId.v] = Null
    /\ Pushed(Destroyed(state, IF asText THEN AsText(delId) ELSE delId))

\* destroy(id, {updateMethod: "local-only"}) with the id as text.
DestroyAsText(id) == MutStart("destroy", Obj([id |-> AsText(id)]), "local-only", FALSE)

\* A list resource without a cache adapter: a refresh and a mutation of the
\* caller overlap, while push events arrive at any moment.
InitEvents ==
    /\ World
    /\ ~config.adapter
    /\ budget = [ops |-> MaxConcurrentOps, mutations |-> MaxMutations,
                 overlap |-> TRUE, events |-> MaxEvents]

NextEvents ==
    \/ \E p \in PassIds, trigger \in {"auto", "manual"} :
            StartPass(p, trigger, FALSE, FALSE)
    \/ \E p \in PassIds, outcome \in {"ok", "offline", "error"} : Fetch(p, outcome)
    \/ \E kind \in {"store", "update", "destroy"}, item \in Items,
          method \in {"on-success", "immediate", "local-only"} :
            MutStart(kind, item, method, FALSE)
    \/ \E item \in NewItems, method \in {"on-success", "immediate", "local-only"} :
            MutStart("store", item, method, FALSE)
    \/ MutRemoteLands
    \/ MutResponse
    \/ \E outcome \in {"offline", "error"} : MutRemoteDone(outcome)
    \/ \E outcome \in {"ok", "offline", "error"} : MutDetached(1, outcome)
    \/ \E i \in Ids : DestroyAsText(Num(i))
    \/ \E item \in Items, asText \in BOOLEAN : PushCreated(item, asText)
    \/ \E item \in Items, asText \in BOOLEAN : PushUpdated(item, asText)
    \/ \E i \in Ids, asText \in BOOLEAN : PushDestroyed(Num(i), asText)

SpecEvents == InitEvents /\ [][NextEvents]_vars

\* ---------------------------------------------------------------- single-item resource
\* The id the hook is given: a resource of one item, without a cache adapter.
ResourceId == Num(1)

\* refresh() of the caller, or the refresh of the mount effect when autoRefresh
\* is set: loading starts as autoRefresh.
StartSingle(p, trigger) ==
    /\ trigger = "auto" => (p = 1 /\ loading)
    /\ StartPass(p, trigger, FALSE, FALSE)

\* actions.refresh(id) settles: with the item the remote holds under the id or
\* with null; offline and without a cache adapter as {data: null, error}.
FetchSingle(p, outcome) ==
    /\ passes[p].pc = "fetch"
    /\ LET pass == [passes[p] EXCEPT !.fetch = outcome]
       IN CASE outcome = "ok" ->
                Commit(passes, p, pass, Response(remote[ResourceId.v], Str("meta"), Null))
            [] outcome = "offline" ->
                Commit(passes, p, pass, Response(Null, Null, Err("originalError")))
            [] OTHER -> Fail(passes, p, pass, "Error")
    /\ UNCHANGED <<remote, cache, mut, config, invocation, budget>>

\* (state as T).id: reading a property of null throws a TypeError.
StateId(s) == IF s = Null THEN Throw("TypeError") ELSE Return(ItemId(s))

\* !loading && (id === undefined || item.id === (state as T).id) && handleUpdated(item):
\* the state the handler leaves, or the error it ends with.
OnUpdated(s, isLoading, item) ==
    IF isLoading THEN Return(s)
    ELSE IF StateId(s).kind = "throw" THEN StateId(s)
    ELSE IF ItemId(item) = StateId(s).value THEN Return(Updated(s, item))
    ELSE Return(s)

\* !loading && (id === undefined || delId === (state as T).id) && handleDestroyed(delId)
OnDestroyed(s, isLoading, delId) ==
    IF isLoading THEN Return(s)
    ELSE IF StateId(s).kind = "throw" THEN StateId(s)
    ELSE IF delId = StateId(s).value THEN Return(Destroyed(s, delId))
    ELSE Return(s)

\* The handler of an event of a single-item resource has run.
Handled(kind, payload, outcome) ==
    /\ budget.events > 0
    /\ budget' = [budget EXCEPT !.events = @ - 1]
    /\ state' = IF outcome.kind = "return" THEN outcome.value ELSE state
    /\ invocation' = [fn |-> "event", pc |-> "done", kind |-> kind, payload |-> payload,
                      before |-> state, loading |-> loading, after |-> state',
                      thrown |-> IF outcome.kind = "throw" THEN outcome.error ELSE "none"]
    /\ UNCHANGED <<cache, meta, error, loading, passes, mut, config>>

\* useEvent "updated": the remote has updated an item it holds, of this
\* resource's id or of another, and announces it.
PushUpdatedSingle(item) ==
    /\ remote[item.f.id.v] # Null
    /\ remote' = [remote EXCEPT ![item.f.id.v] = item]
    /\ Handled("updated", item, OnUpdated(state, loading, item))

\* useEvent "destroyed": the remote no longer holds the item of the id and
\* announces it.
PushDestroyedSingle(delId) ==
    /\ remote' = [remote EXCEPT ![delId.v] = Null]
    /\ Handled("destroyed", delId, OnDestroyed(state, loading, delId))

\* useState(id === undefined ? [] : null), useState(autoRefresh): a resource of
\* one item before its first refresh, with autoRefresh set or not.
InitSingle ==
    /\ config = [adapter |-> FALSE, batchSync |-> FALSE, resolver |-> FALSE]
    /\ remote \in [Ids -> Items \cup {Null}]
    /\ \A i \in Ids : remote[i] \in ItemsOf(i) \cup {Null}
    /\ cache = [i \in Ids |-> NoEntry]
    /\ state = Null
    /\ meta = Null
    /\ error = Null
    /\ loading \in BOOLEAN
    /\ passes = [p \in PassIds |-> IdlePass]
    /\ mut = IdleMut
    /\ budget = [ops |-> MaxConcurrentOps, mutations |-> 0, overlap |-> TRUE,
                 events |-> MaxEvents]
    /\ invocation = NoCall

NextSingle ==
    \/ \E p \in PassIds, trigger \in {"auto", "manual"} : StartSingle(p, trigger)
    \/ \E p \in PassIds, outcome \in {"ok", "offline", "error"} : FetchSingle(p, outcome)
    \/ \E item \in Items : PushUpdatedSingle(item)
    \/ \E i \in Ids : PushDestroyedSingle(Num(i))

SpecSingle == InitSingle /\ [][NextSingle]_vars

\* ---------------------------------------------------------------- resolveDeltas
\* The three deltas: {action: "store", resource}, {action: "update", id, update},
\* {action: "destroy", id}.
Store(resource) == [action |-> "store", resource |-> resource]
Update(id, update) == [action |-> "update", id |-> id, update |-> update]
Destroy(id) == [action |-> "destroy", id |-> id]

\* delta.id: undefined on a store delta.
DeltaId(delta) == IF delta.action = "store" THEN Undefined ELSE delta.id

\* ItemMap with the items in reverse order.
ItemMapReversed(input) ==
    [i \in 1..Len(input) |->
        <<ItemId(input[Len(input) + 1 - i]), input[Len(input) + 1 - i]>>]

\* new Map(input.map(item => [item.id, item]))
RECURSIVE ItemMap(_)
ItemMap(input) ==
    IF input = <<>> THEN <<>>
    ELSE MapSet(ItemMap(SubSeq(input, 1, Len(input) - 1)),
                ItemId(input[Len(input)]), input[Len(input)])

\* ApplyDelta with a store that files the resource under no key.
ApplyDeltaStoreUnkeyed(map, delta) ==
    CASE delta.action = "store" -> MapSet(map, Undefined, delta.resource)
      [] delta.action = "update" ->
            MapSet(map, delta.id,
                   IF MapHas(map, delta.id)
                   THEN Spread(MapGet(map, delta.id), delta.update)
                   ELSE delta.update)
      [] OTHER -> MapDelete(map, delta.id)

\* switch (delta.action): one delta applied to the map of a collection.
ApplyDelta(map, delta) ==
    CASE delta.action = "store" -> MapSet(map, ItemId(delta.resource), delta.resource)
      [] delta.action = "update" ->
            MapSet(map, delta.id,
                   IF MapHas(map, delta.id)
                   THEN Spread(MapGet(map, delta.id), delta.update)
                   ELSE delta.update)
      [] OTHER -> MapDelete(map, delta.id)

\* ApplyDeltas with the deltas taken from the last to the first.
RECURSIVE ApplyDeltasBackwards(_, _)
ApplyDeltasBackwards(map, deltas) ==
    IF deltas = <<>> THEN map
    ELSE ApplyDeltasBackwards(ApplyDelta(map, deltas[Len(deltas)]),
                              SubSeq(deltas, 1, Len(deltas) - 1))

\* for (const delta of deltas)
RECURSIVE ApplyDeltas(_, _)
ApplyDeltas(map, deltas) ==
    IF deltas = <<>> THEN map
    ELSE ApplyDeltas(ApplyDelta(map, Head(deltas)), Tail(deltas))

\* ReduceDelta with a store that brings an absent item back.
ReduceDeltaStoreRevives(item, delta) ==
    IF item = Null
    THEN IF delta.action = "store" THEN delta.resource ELSE Null
    ELSE IF DeltaId(delta) = ItemId(item)
         THEN CASE delta.action = "update" -> Spread(item, delta.update)
                [] delta.action = "destroy" -> Null
                [] OTHER -> item
         ELSE item

\* The reducer of the single-item form.
ReduceDelta(item, delta) ==
    IF item # Null /\ DeltaId(delta) = ItemId(item)
    THEN CASE delta.action = "update" -> Spread(item, delta.update)
           [] delta.action = "destroy" -> Null
           [] OTHER -> item
    ELSE item

\* deltas.reduce(..., input)
RECURSIVE ReduceDeltas(_, _)
ReduceDeltas(item, deltas) ==
    IF deltas = <<>> THEN item
    ELSE ReduceDeltas(ReduceDelta(item, Head(deltas)), Tail(deltas))

resolveDeltas(input, deltas) ==
    IF input.t = "arr"
    THEN Arr(MapValues(ApplyDeltas(ItemMap(input.f), deltas)))
    ELSE ReduceDeltas(input, deltas)

\* ---------------------------------------------------------------- pruneUnchanged
\* comparison[key] throws a TypeError on null and undefined.
Indexable(x) == x \notin {Null, Undefined}

\* comparison[key] for a string key: only a plain object holds one.
Index(o, key) == IF o.t = "obj" /\ key \in DOMAIN o.f THEN o.f[key] ELSE Undefined

\* isAtomic(value) || Array.isArray(value)
IsLeaf(value) == isAtomic(value) \/ value.t = "arr"

\* KeepLeaf without the comparison: every leaf of the update is kept.
KeepLeafAlways(key, value, comparison, ignoreKeys) == TRUE

\* ignoreKeys.includes(key) || !deepEquals(value, comparison[key])
KeepLeaf(key, value, comparison, ignoreKeys) ==
    key \in ignoreKeys \/ ~deepEquals(value, Index(comparison, key), "strict")

\* The target object the loop fills, or the TypeError that ends it.
RECURSIVE pruneUnchangedRecursive(_, _, _)
pruneUnchangedRecursive(input, comparison, ignoreKeys) ==
    LET keys == DOMAIN input.f
        nested == {k \in keys : ~IsLeaf(input.f[k])}
        reads == {k \in keys : k \in nested \/ k \notin ignoreKeys}
    IN IF reads # {} /\ ~Indexable(comparison)
       THEN Throw("TypeError")
       ELSE LET sub == [k \in nested |->
                            pruneUnchangedRecursive(input.f[k], Index(comparison, k), {})]
                kept == {k \in keys \ nested :
                            KeepLeaf(k, input.f[k], comparison, ignoreKeys)}
            IN IF \E k \in nested : sub[k].kind = "throw"
               THEN Throw("TypeError")
               ELSE Return(Obj([k \in kept \cup nested |->
                                    IF k \in nested THEN sub[k].value ELSE input.f[k]]))

pruneUnchanged(input, comparison, ignoreKeys) ==
    pruneUnchangedRecursive(input, comparison, ignoreKeys)

\* ---------------------------------------------------------------- calls of the utilities
\* A field that an object does not carry.
Absent == [t |-> "absent"]
MakeObj(vals) == Obj([k \in {j \in DOMAIN vals : vals[j] # Absent} |-> vals[k]])

\* Items without an id, as store takes them.
NoIdItems == {Obj([name |-> Num(1)])}
BaseItems == Items \cup NoIdItems
Patches == {Obj([name |-> Num(n)]) : n \in Names}
Deltas ==
    {Store(item) : item \in BaseItems}
    \cup {Update(Num(i), patch) : i \in Ids, patch \in Patches}
    \cup {Destroy(Num(i)) : i \in Ids}
SeqsUpTo(S, n) == UNION {[1..k -> S] : k \in 0..n}
Bases == {Arr(list) : list \in SeqsUpTo(BaseItems, MaxBase)} \cup BaseItems \cup {Null}

\* resolveDeltas(resolveDeltas(input, first deltas), remaining deltas)
ResolveCalls ==
    {[fn |-> "resolveDeltas", pc |-> "call", input |-> b, deltas |-> d,
      split |-> k, first |-> Undefined, result |-> Undefined] :
        b \in Bases, d \in SeqsUpTo(Deltas, MaxDeltas), k \in 0..MaxDeltas}

\* The scenario of the specification.
ExampleUpdate == Obj([a |-> Num(1), b |-> Obj([c |-> Num(2), d |-> Num(3)])])
ExampleComparison == Obj([a |-> Num(1), b |-> Obj([c |-> Num(9), d |-> Num(3)])])

PruneLeaves == {Num(n) : n \in Names} \cup {Null, Arr(<<Num(1)>>)}
DeepObjs == {Obj([e |-> Num(n)]) : n \in Names}
InnerObjs ==
    {MakeObj([c |-> x, d |-> y]) :
        x \in {Absent} \cup {Num(n) : n \in Names} \cup DeepObjs,
        y \in {Absent} \cup {Num(n) : n \in Names}}
PruneObjs ==
    {MakeObj([a |-> x, b |-> y]) :
        x \in {Absent} \cup PruneLeaves,
        y \in {Absent} \cup PruneLeaves \cup InnerObjs}
    \cup {ExampleUpdate, ExampleComparison}

PruneCalls ==
    {[fn |-> "pruneUnchanged", pc |-> "call", input |-> u, comparison |-> c,
      ignoreKeys |-> ig, result |-> Undefined] :
        u \in PruneObjs, c \in PruneObjs, ig \in {{}, {"a"}}}

\* A call of resolveDeltas or of pruneUnchanged on any of these inputs; the hook
\* itself is idle.
InitUtil ==
    /\ config = [adapter |-> FALSE, batchSync |-> FALSE, resolver |-> FALSE]
    /\ remote = [i \in Ids |-> Null]
    /\ cache = [i \in Ids |-> NoEntry]
    /\ state = Arr(<<>>)
    /\ meta = Null
    /\ error = Null
    /\ loading = TRUE
    /\ passes = [p \in PassIds |-> IdlePass]
    /\ mut = IdleMut
    /\ budget = [ops |-> 0, mutations |-> 0, overlap |-> FALSE, events |-> 0]
    /\ invocation \in {c \in ResolveCalls : c.split <= Len(c.deltas)} \cup PruneCalls

\* resolveDeltas(input, ...deltas.slice(0, split)) returns.
ResolveFirst ==
    /\ invocation.fn = "resolveDeltas"
    /\ invocation.pc = "call"
    /\ invocation' = [invocation EXCEPT
                    !.pc = "replay",
                    !.first = resolveDeltas(invocation.input, SubSeq(invocation.deltas, 1, invocation.split))]
    /\ UNCHANGED <<remote, cache, state, meta, error, loading, passes, mut, config, budget>>

\* resolveDeltas(first, ...deltas.slice(split)) returns.
ResolveSecond ==
    /\ invocation.fn = "resolveDeltas"
    /\ invocation.pc = "replay"
    /\ invocation' = [invocation EXCEPT
                    !.pc = "done",
                    !.result = resolveDeltas(invocation.first,
                                             SubSeq(invocation.deltas, invocation.split + 1, Len(invocation.deltas)))]
    /\ UNCHANGED <<remote, cache, state, meta, error, loading, passes, mut, config, budget>>

\* pruneUnchanged(input, comparison, ignoreKeys) returns or throws.
Prune ==
    /\ invocation.fn = "pruneUnchanged"
    /\ invocation.pc = "call"
    /\ invocation' = [invocation EXCEPT
                    !.pc = "done",
                    !.result = pruneUnchanged(invocation.input, invocation.comparison, invocation.ignoreKeys)]
    /\ UNCHANGED <<remote, cache, state, meta, error, loading, passes, mut, config, budget>>

NextUtil ==
    \/ ResolveFirst
    \/ ResolveSecond
    \/ Prune

SpecUtil == InitUtil /\ [][NextUtil]_vars

\* ---------------------------------------------------------------- diff
\* compare(a, b) of two identifiers: negative, zero or positive, a total order.
compare(a, b) == IF a.v < b.v THEN -1 ELSE IF a.v > b.v THEN 1 ELSE 0

\* Sorting left out: the lists are walked in the order they were given.
SortByIdNone(list) == list

\* [...list].sort((a, b) => compare(a.id, b.id)): a stable sort by identifier.
RECURSIVE SortById(_)
SortById(list) ==
    IF list = <<>> THEN <<>>
    ELSE LET sorted == SortById(SubSeq(list, 1, Len(list) - 1))
             x == list[Len(list)]
             before == {k \in 1..Len(sorted) : compare(sorted[k].f.id, x.f.id) <= 0}
             n == Cardinality(before)
         IN SubSeq(sorted, 1, n) \o <<x>> \o SubSeq(sorted, n + 1, Len(sorted))

\* The merge walk over the two sorted lists with the cursors i and j.
RECURSIVE MergeWalk(_, _, _, _, _)
MergeWalk(sortedLocal, sortedRemote, i, j, acc) ==
    IF ~(i <= Len(sortedLocal) \/ j <= Len(sortedRemote)) THEN acc
    ELSE LET comparison == IF i <= Len(sortedLocal) /\ j <= Len(sortedRemote)
                           THEN compare(sortedLocal[i].f.id, sortedRemote[j].f.id)
                           ELSE 0
         IN IF j > Len(sortedRemote) \/ comparison < 0
            THEN MergeWalk(sortedLocal, sortedRemote, i + 1, j,
                           [acc EXCEPT !.destroyed = Append(@, sortedLocal[i].f.id)])
            ELSE IF i > Len(sortedLocal) \/ comparison > 0
            THEN MergeWalk(sortedLocal, sortedRemote, i, j + 1,
                           [acc EXCEPT !.created = Append(@, sortedRemote[j])])
            ELSE MergeWalk(sortedLocal, sortedRemote, i + 1, j + 1,
                           IF ~deepEquals(sortedLocal[i], sortedRemote[j], "strict")
                           THEN [acc EXCEPT !.updated = Append(@, sortedRemote[j])]
                           ELSE acc)

\* diff(local, remote): {created, updated, destroyed}
diff(localItems, remoteItems) ==
    MergeWalk(SortById(localItems), SortById(remoteItems), 1, 1,
              [created |-> <<>>, updated |-> <<>>, destroyed |-> <<>>])

\* The collections diff is called with: items in any order, ids may repeat.
DiffItems == {Item(i, n) : i \in 1..MaxDiffId, n \in Names}
DiffCalls ==
    {[fn |-> "diff", pc |-> "call", local |-> l, remote |-> r, result |-> Undefined] :
        l \in SeqsUpTo(DiffItems, MaxDiffLen), r \in SeqsUpTo(DiffItems, MaxDiffLen)}

\* A call of diff on any two of these collections; the hook itself is idle.
InitDiff ==
    /\ config = [adapter |-> FALSE, batchSync |-> FALSE, resolver |-> FALSE]
    /\ remote = [i \in Ids |-> Null]
    /\ cache = [i \in Ids |-> NoEntry]
    /\ state = Arr(<<>>)
    /\ meta = Null
    /\ error = Null
    /\ loading = TRUE
    /\ passes = [p \in PassIds |-> IdlePass]
    /\ mut = IdleMut
    /\ budget = [ops |-> 0, mutations |-> 0, overlap |-> FALSE, events |-> 0]
    /\ invocation \in DiffCalls

\* diff(local, remote) returns.
Diff ==
    /\ invocation.fn = "diff"
    /\ invocation.pc = "call"
    /\ invocation' = [invocation EXCEPT
                    !.pc = "done",
                    !.result = diff(invocation.local, invocation.remote)]
    /\ UNCHANGED <<remote, cache, state, meta, error, loading, passes, mut, config, budget>>

NextDiff == Diff

SpecDiff == InitDiff /\ [][NextDiff]_vars

\* ---------------------------------------------------------------- calls of deepEquals
\* Atomic values, and arrays and plain objects that nest them up to two deep.
EqualsAtoms == {Num(1), Num(2), Null, Undefined}
EqualsInner ==
    EqualsAtoms
    \cup {Arr(<<x>>) : x \in {Num(1), Null, Undefined}}
    \cup {Obj([a |-> x]) : x \in {Num(1), Null, Undefined}}
EqualsValues ==
    EqualsAtoms
    \cup {Arr(<<>>), Obj([k \in {} |-> Null])}
    \cup {Arr(<<x>>) : x \in EqualsInner}
    \cup {Obj([a |-> x]) : x \in EqualsInner}
    \cup {Obj([b |-> x]) : x \in {Num(1), Undefined}}
    \cup {Obj([a |-> Num(1), b |-> x]) : x \in {Num(1), Null, Undefined}}
    \cup {Arr(<<Num(1), x>>) : x \in {Num(1), Null, Undefined}}

EqualsCalls ==
    {[fn |-> "deepEquals", pc |-> "call", a |-> x, b |-> y, equalityCallback |-> cmp,
      result |-> Undefined, swapped |-> Undefined] :
        x \in EqualsValues, y \in EqualsValues, cmp \in {"strict", "loose"}}

\* A call of deepEquals on any two of these values, with the default comparator
\* or with a == b; the hook itself is idle.
InitEquals ==
    /\ config = [adapter |-> FALSE, batchSync |-> FALSE, resolver |-> FALSE]
    /\ remote = [i \in Ids |-> Null]
    /\ cache = [i \in Ids |-> NoEntry]
    /\ state = Arr(<<>>)
    /\ meta = Null
    /\ error = Null
    /\ loading = TRUE
    /\ passes = [p \in PassIds |-> IdlePass]
    /\ mut = IdleMut
    /\ budget = [ops |-> 0, mutations |-> 0, overlap |-> FALSE, events |-> 0]
    /\ invocation \in EqualsCalls

\* deepEquals(a, b, equalityCallback) and deepEquals(b, a, equalityCallback)
\* return.
Equals ==
    /\ invocation.fn = "deepEquals"
    /\ invocation.pc = "call"
    /\ invocation' = [invocation EXCEPT
                    !.pc = "done",
                    !.result = Bool(deepEquals(invocation.a, invocation.b,
                                               invocation.equalityCallback)),
                    !.swapped = Bool(deepEquals(invocation.b, invocation.a,
                                                invocation.equalityCallback))]
    /\ UNCHANGED <<remote, cache, state, meta, error, loading, passes, mut, config, budget>>

NextEquals == Equals

SpecEquals == InitEquals /\ [][NextEquals]_vars

\* ---------------------------------------------------------------- listeners

\* A listener is a function of the caller: it returns true, false or nothing.
ListenerReturns == {Bool(TRUE), Bool(FALSE), Undefined}
Listeners == [name : 1..MaxListeners, returns : ListenerReturns]

\* !x
Not(x) == x \in {Bool(FALSE), Undefined, Null}

\* handleCreated / handleUpdated / handleDestroyed of ResourceProvider: every
\* registered listener is called, and the result is false once one of them
\* returned a falsy value.
RECURSIVE ProviderHandle(_, _)
ProviderHandle(listeners, acc) ==
    IF listeners = <<>> THEN acc
    ELSE LET listener == Head(listeners)
         IN ProviderHandle(Tail(listeners),
                [result |-> IF Not(listener.returns) THEN Bool(FALSE) ELSE acc.result,
                 called |-> Append(acc.called, listener.name)])

\* onCreated?.(item) ?? true, where the option is absent, a listener of the
\* caller, or the handler of the provider over its registered listeners.
OnNotified(via, listeners) ==
    CASE via = "none" -> [result |-> Bool(TRUE), called |-> <<>>]
      [] via = "direct" ->
            [result |-> Coalesce(listeners[1].returns, Bool(TRUE)),
             called |-> <<listeners[1].name>>]
      [] OTHER -> ProviderHandle(listeners, [result |-> Bool(TRUE), called |-> <<>>])

\* The hook with its onCreated / onUpdated / onDestroyed option, before any
\* notification: the listeners are the caller's one, or those registered so far.
NotifyCalls ==
    {[fn |-> "notify", pc |-> "idle", via |-> via, listeners |-> listeners,
      kind |-> "none", consulted |-> <<>>, called |-> <<>>, applied |-> FALSE] :
        via \in {"none", "direct", "provider"},
        listeners \in {<<>>} \cup {<<l>> : l \in Listeners}}

\* A loaded list resource that holds one item; notifications may follow.
InitListeners ==
    /\ config = [adapter |-> FALSE, batchSync |-> FALSE, resolver |-> FALSE]
    /\ remote = [i \in Ids |-> IF i = 1 THEN Item(1, 1) ELSE Null]
    /\ cache = [i \in Ids |-> NoEntry]
    /\ state = Arr(<<Item(1, 1)>>)
    /\ meta = Null
    /\ error = Null
    /\ loading = FALSE
    /\ passes = [p \in PassIds |-> IdlePass]
    /\ mut = IdleMut
    /\ budget = [ops |-> 0, mutations |-> 0, overlap |-> FALSE, events |-> MaxEvents]
    /\ invocation \in NotifyCalls
    /\ (invocation.via = "direct") <=> (Len(invocation.listeners) = 1)

\* addCreatedListener / addUpdatedListener / addDestroyedListener: a Set keeps
\* each listener once, in the order of registration.
AddListener(listener) ==
    /\ invocation.fn = "notify"
    /\ invocation.via = "provider"
    /\ \A k \in 1..Len(invocation.listeners) : invocation.listeners[k].name # listener.name
    /\ invocation' = [invocation EXCEPT !.listeners = Append(@, listener)]
    /\ UNCHANGED <<remote, cache, state, meta, error, loading, passes, mut, config, budget>>

\* The function addXListener returned is called: the listener is removed.
RemoveListener(name) ==
    /\ invocation.fn = "notify"
    /\ invocation.via = "provider"
    /\ \E k \in 1..Len(invocation.listeners) : invocation.listeners[k].name = name
    /\ invocation' = [invocation EXCEPT
                        !.listeners = SelectSeq(@, LAMBDA l : l.name # name)]
    /\ UNCHANGED <<remote, cache, state, meta, error, loading, passes, mut, config, budget>>

\* handleCreated / handleUpdated / handleDestroyed of the hook:
\* if (onX?.(payload) ?? true) setState(...).
Notify(kind, payload) ==
    /\ invocation.fn = "notify"
    /\ budget.events > 0
    /\ budget' = [budget EXCEPT !.events = @ - 1]
    /\ LET answer == OnNotified(invocation.via, invocation.listeners)
           go == ~Not(answer.result)
       IN /\ invocation' = [invocation EXCEPT
                                !.pc = "done", !.kind = kind,
                                !.consulted = invocation.listeners,
                                !.called = answer.called, !.applied = go]
          /\ state' = IF ~go THEN state
                      ELSE CASE kind = "created" -> Created(state, payload)
                             [] kind = "updated" -> Updated(state, payload)
                             [] OTHER -> Destroyed(state, payload)
    /\ UNCHANGED <<remote, cache, meta, error, loading, passes, mut, config>>

NextListeners ==
    \/ \E listener \in Listeners : AddListener(listener)
    \/ \E name \in 1..MaxListeners : RemoveListener(name)
    \/ \E item \in Items : Notify("created", item)
    \/ \E item \in Items : Notify("updated", item)
    \/ \E i \in Ids : Notify("destroyed", Num(i))

SpecListeners == InitListeners /\ [][NextListeners]_vars

\* ---------------------------------------------------------------- properties
\* A pass that has run the classification loop and still holds its plan.
Planned(p) == passes[p].reconciled /\ passes[p].pc \in {"dispatch", "sync", "fallback"}

IdOf(entry) == Coalesce(entry.remote, entry.local).f.id

\* The item of that identity in the list the remote fetch returned, or Null.
FetchedItem(data, id) ==
    LET hits == {k \in 1..Len(data) : data[k].f.id = id}
    IN IF hits = {} THEN Null ELSE data[CHOOSE k \in hits : TRUE]

\* Changed on both sides: a pending entry whose last-synced snapshot differs
\* from the fetched item.
InConflict(entry, data) ==
    entry.remote # Undefined /\ entry.remote # FetchedItem(data, IdOf(entry))

\* Pending and unchanged remotely since the last sync.
OnlyLocalChanged(entry, data) ==
    entry.remote # Undefined /\ entry.remote = FetchedItem(data, IdOf(entry))

ExpectedCalls(entries, data) ==
    LET Test(e) == InConflict(e, data)
        hit == SelectSeq(entries, Test)
    IN [k \in 1..Len(hit) |-> <<hit[k].local, hit[k].remote, FetchedItem(data, IdOf(hit[k]))>>]

\* The operations a plan schedules on one identity, as <<list, position>>.
OpsOn(plan, lists, id) ==
    {<<l, k>> \in lists \X (1..(3 * MaxId)) :
        /\ k <= Len(plan[l])
        /\ IF l \in {"remoteDestroy", "localDestroy"}
           THEN plan[l][k] = id
           ELSE plan[l][k].f.id = id}
RemoteOpsOn(plan, id) == OpsOn(plan, {"remoteStore", "remoteUpdate", "remoteDestroy"}, id)
LocalOpsOn(plan, id) == OpsOn(plan, {"localStore", "localUpdate", "localDestroy"}, id)

SkippedIds(p) == {i \in Ids : ToString(i) \in passes[p].plan.skipped}

\* This step is one of pass p: a write of it lands, or it moves on.
Acts(p) == passes'[p].pending # passes[p].pending \/ passes'[p].pc # passes[p].pc

\* C4: for an entry whose conflict handling raised ConflictError the plan holds
\* no remote and no local operation and its identity is not handed to sync; no
\* step of the pass changes the cache entry or the remote item of that identity.
C4_SkippedUntouched ==
    [][\A p \in PassIds : \A i \in SkippedIds(p) :
            /\ Planned(p) =>
                    /\ RemoteOpsOn(passes[p].plan, Num(i)) = {}
                    /\ LocalOpsOn(passes[p].plan, Num(i)) = {}
                    /\ Num(i) \notin SyncIds(passes[p].plan)
            /\ Acts(p) => (cache'[i] = cache[i] /\ remote'[i] = remote[i])]_vars

\* C4 witness: a pass ran to its commit and left a skipped entry pending.
C4_Witness ==
    \E p \in PassIds : \E i \in SkippedIds(p) :
        /\ passes[p].pc = "done"
        /\ passes[p].committed
        /\ passes[p].reconciled
        /\ IsPending(cache[i])

\* C4 as stated: with no resolver configured every entry in conflict is skipped,
\* so none of them is scheduled or handed to sync.
C4_AsStated ==
    \A p \in PassIds :
        (Planned(p) /\ ~config.resolver) =>
            \A k \in 1..Len(passes[p].entries) :
                LET e == passes[p].entries[k]
                IN InConflict(e, passes[p].response.data.f) =>
                    /\ RemoteOpsOn(passes[p].plan, IdOf(e)) = {}
                    /\ LocalOpsOn(passes[p].plan, IdOf(e)) = {}
                    /\ IdOf(e) \notin SyncIds(passes[p].plan)

\* C6: once its signal is aborted, no step of a pass changes the in-memory
\* state, meta, error or loading.
C6_AbortedWritesNothing ==
    [][\A p \in PassIds : (Aborted(passes[p]) /\ Acts(p)) => UNCHANGED hook]_vars

\* C6 witness: a pass aborted after its fetch succeeded and after it had
\* reconciled ran to its end, and loading is still set.
C6_Witness ==
    \E p \in PassIds :
        /\ passes[p].pc = "done"
        /\ Aborted(passes[p])
        /\ passes[p].fetch = "ok"
        /\ passes[p].reconciled
        /\ loading
        /\ state = Arr(<<>>)
        /\ \E i \in Ids : remote[i] # Null

\* How a pass that ends in this step answers a failed fetch.
FetchAnswer(p, exceptAborted) ==
    (InFlight(p) /\ passes'[p].pc = "done" /\ (exceptAborted => ~Aborted(passes'[p]))) =>
        /\ (passes'[p].fetch = "offline" /\ config.adapter) =>
                /\ passes'[p].outcome = "resolved"
                /\ state' = Arr(CacheRefresh(cache))
                /\ error' = Null
        /\ passes'[p].fetch = "error" =>
                /\ passes'[p].outcome = "rejected"
                /\ passes'[p].thrown = "Error"

\* C8 (amended): a pass that was not aborted and whose fetch failed offline,
\* with a cache adapter configured, resolves and sets the state to the snapshot
\* of the cache's refresh; one whose fetch failed otherwise rejects with that error.
C8_OfflineFallback == [][\A p \in PassIds : FetchAnswer(p, TRUE)]_vars

\* C8 witness: a pass whose fetch failed offline committed a non-empty snapshot.
C8_Witness ==
    \E p \in PassIds :
        /\ passes[p].pc = "done"
        /\ passes[p].fetch = "offline"
        /\ passes[p].committed
        /\ state = Arr(CacheRefresh(cache))
        /\ Len(state.f) > 0

\* C8 as stated: the same of every pass, aborted or not.
C8_AsStated == [][\A p \in PassIds : FetchAnswer(p, FALSE)]_vars

\* C9: in itemized mode, after a pass in which exactly one write failed, with the
\* offline signal, every identity written by a call that succeeded is synced.
C9_OtherWritesSynced ==
    \A p \in PassIds :
        (/\ passes[p].pc = "done"
         /\ passes[p].pending = {}
         /\ passes[p].committed
         /\ passes[p].clean
         /\ ~config.batchSync
         /\ Cardinality(passes[p].failed) = 1) =>
            \A k \in passes[p].ok : \A id \in WriteIds(passes[p].writes[k]) :
                cache[id.v] = NoEntry \/ ~IsPending(cache[id.v])

\* A pass that failed: its fetch or one of its writes raised an error, or the
\* fetch raised the offline signal with no cache adapter to fall back on.
PassFailed(pass) ==
    \/ pass.fetch = "error"
    \/ pass.fetch = "offline" /\ ~config.adapter
    \/ pass.outcome = "rejected"

\* C10: the step that ends a failed pass leaves the in-memory state as it was.
C10_FailedPassKeepsState ==
    [][\A p \in PassIds :
            (InFlight(p) /\ passes'[p].pc = "done" /\ PassFailed(passes'[p])) =>
                state' = state]_vars

\* Remote item, cache entry and in-memory item of one identity agree and
\* nothing is pending.
Agree(r, c, s) ==
    \/ r = Null /\ c = NoEntry /\ s = Null
    \/ r # Null /\ c # NoEntry /\ ~IsPending(c) /\ c.local = r /\ s = r

\* C1: when a cache-enabled pass whose writes all succeeded and that skipped no
\* entry commits, remote store, cache and the committed list agree on every
\* identity and no entry is pending.
C1_Converged ==
    [][\A p \in PassIds :
            (/\ passes[p].pc = "sync"
             /\ passes'[p].pc = "done"
             /\ passes[p].clean
             /\ passes[p].plan.skipped = {}
             /\ ~Aborted(passes[p])) =>
                \A i \in Ids : Agree(remote'[i], cache'[i], FetchedItem(state'.f, Num(i)))]_vars

\* C5: of two overlapping passes, the start of the later one cancels the earlier
\* one, and the earlier one, ending after the later one has started, does not
\* write the in-memory state.
C5_LaterPassWins ==
    [][\A p, q \in PassIds :
            p < q =>
                /\ (InFlight(p) /\ passes[q].pc = "idle" /\ passes'[q].pc # "idle") =>
                        Aborted(passes'[p])
                /\ (InFlight(p) /\ passes[q].pc # "idle" /\ passes'[p].pc = "done") =>
                        state' = state]_vars

\* The mutation of the caller has reached the cache.
MutInCache ==
    /\ mut.cache
    /\ mut.method # "local-only"
    /\ IF mut.kind = "destroy"
       THEN mut.pc \in {"detached", "done"}
            /\ \A k \in 1..Len(mut.detached) : mut.detached[k] # "destroy"
       ELSE mut.pc \in {"remote", "sync", "done"}

\* The local snapshot of a cache entry carries the mutation.
MutLocal(c) ==
    /\ c # NoEntry
    /\ IsPending(c)
    /\ CASE mut.kind = "destroy" -> c.local = Null
         [] mut.kind = "store" -> c.local = mut.item
         [] OTHER -> c.local # Null /\ c.local.f.name = mut.item.f.name

\* The local snapshot pass p read for an identity, Undefined if it read none.
LocalAsRead(p, id) ==
    LET hits == {k \in 1..Len(passes[p].entries) : IdOf(passes[p].entries[k]) = id}
    IN IF hits = {} THEN Undefined ELSE passes[p].entries[CHOOSE k \in hits : TRUE].local

\* The mutation is applied on the remote store or still pending in the cache.
MutationKept ==
    LET i == mut.id.v
    IN \/ MutLocal(cache[i])
       \/ CASE mut.kind = "destroy" -> remote[i] = Null
            [] mut.kind = "store" -> remote[i] = mut.item
            [] OTHER -> remote[i] # Null /\ remote[i].f.name = mut.item.f.name

\* Everything has ended and a cache-enabled mutation, issued while a pass was
\* between getCache and sync, resolved.
RaceOver ==
    /\ mut.pc = "done"
    /\ mut.outcome = "resolved"
    /\ mut.cache
    /\ mut.method # "local-only"
    /\ mut.during # {}
    /\ \A p \in PassIds : ~InFlight(p) /\ passes[p].pending = {}

\* C7: a cache-enabled mutation issued while a pass is between getCache and
\* sync is, once all has ended, applied remotely or still pending in the cache,
\* and the sync of that pass leaves the entry the mutation wrote as it is.
C7_MutationNotLost ==
    [][/\ RaceOver' => MutationKept'
       /\ \A p \in mut.during :
            (/\ passes[p].pc = "sync"
             /\ passes'[p].pc = "done"
             /\ MutInCache
             /\ MutLocal(cache[mut.id.v])
             /\ cache[mut.id.v].local # LocalAsRead(p, mut.id)) =>
                cache'[mut.id.v] = cache[mut.id.v]]_vars

\* A pass that failed with an error other than the offline signal.
FailedWithError(pass) == pass.fetch = "error" \/ pass.thrown # "none"

\* C11: once an automatically started pass that was not aborted has ended in
\* an error other than the offline signal, and until the next refresh starts,
\* the call has not rejected and the error field is not null.
C11_ErrorExposed ==
    \A p \in PassIds :
        (/\ passes[p].pc = "done"
         /\ passes[p].trigger = "auto"
         /\ ~Aborted(passes[p])
         /\ FailedWithError(passes[p])
         /\ \A q \in PassIds : q > p => passes[q].pc = "idle") =>
            /\ passes[p].outcome = "resolved"
            /\ error # Null

\* C12: with update method 'on-success' a step of store, update or destroy
\* changes the in-memory state only when the remote call has settled
\* successfully; in particular not when it failed.
C12_OnSuccessAfterRemote ==
    [][(mut'.method = "on-success" /\ mut' # mut /\ state' # state) =>
            mut'.remote = "ok"]_vars

\* The positions of a list that hold an item of that identity.
At(list, id) == {k \in 1..Len(list) : list[k].f.id = id}

\* C13: with update method 'immediate' on a list, the step that starts store or
\* update puts the caller's data into the in-memory list while the remote call
\* is still open; the step that ends it after the remote call succeeded leaves
\* the response item in the list: for store exactly once and in place of the
\* optimistic item, for update as the item of that identity.
C13_ImmediateThenResponse ==
    [][(/\ mut'.method = "immediate"
        /\ mut'.kind \in {"store", "update"}
        /\ state.t = "arr"
        /\ state'.t = "arr") =>
            /\ (mut.pc = "idle" /\ mut'.pc \in {"cache", "remote"}) =>
                    /\ mut'.remote = "none"
                    /\ IF mut'.kind = "store"
                       THEN \E k \in At(state'.f, mut'.id) : state'.f[k].f = mut'.item.f
                       ELSE /\ Len(state'.f) = Len(state.f)
                            /\ \A k \in At(state.f, mut'.id) :
                                    state'.f[k] = Spread(state.f[k], Rest(mut'.item))
            /\ (/\ mut.pc \notin {"idle", "done"}
                /\ mut'.pc = "done"
                /\ mut'.outcome = "resolved"
                /\ mut'.remote = "ok") =>
                    IF mut'.kind = "store"
                    THEN /\ Cardinality({k \in 1..Len(state'.f) : state'.f[k] = mut'.result}) = 1
                         /\ \A k \in 1..Len(state'.f) : state'.f[k] # Tagged(mut'.item)
                    ELSE \A k \in At(state'.f, mut'.id) : state'.f[k] = mut'.result]_vars

\* The fetched items whose identity no cache entry carries.
NewRemote(p) ==
    {k \in 1..Len(passes[p].response.data.f) :
        \A j \in 1..Len(passes[p].entries) :
            IdOf(passes[p].entries[j]) # passes[p].response.data.f[k].f.id}

RECURSIVE SameValue(_, _)
SameValue(a, b) ==
    /\ a.t = b.t
    /\ CASE a.t = "obj" ->
                /\ DOMAIN a.f = DOMAIN b.f
                /\ \A k \in DOMAIN a.f : SameValue(a.f[k], b.f[k])
         [] a.t = "arr" ->
                /\ Len(a.f) = Len(b.f)
                /\ \A k \in 1..Len(a.f) : SameValue(a.f[k], b.f[k])
         [] OTHER -> a = b

\* A call of resolveDeltas, of pruneUnchanged, that has returned.
Resolved(pcs) == invocation.fn = "resolveDeltas" /\ invocation.pc \in pcs
Pruned == invocation.fn = "pruneUnchanged" /\ invocation.pc = "done"

\* No two items of a collection carry the same id; a single item is one.
DistinctIds(base) ==
    base.t = "arr" =>
        \A i, j \in 1..Len(base.f) : i # j => ItemId(base.f[i]) # ItemId(base.f[j])

\* What resolveDeltas with no deltas returns for a base it is given.
IdentityLaw(unique) ==
    /\ (/\ Resolved({"replay", "done"})
        /\ invocation.split = 0
        /\ unique => DistinctIds(invocation.input)) =>
            SameValue(invocation.first, invocation.input)
    /\ (/\ Resolved({"done"})
        /\ invocation.split = Len(invocation.deltas)
        /\ unique => DistinctIds(invocation.first)) =>
            SameValue(invocation.result, invocation.first)

\* C16 (amended): resolveDeltas called with no deltas returns a value equal to
\* base, for every collection base whose items carry pairwise distinct ids (the
\* same items in the same order) and for every single-item base, an absent one
\* included.
C16_IdentityLaw == IdentityLaw(TRUE)

\* C16 witness: resolveDeltas with no deltas has returned a collection of two
\* items in their order.
C16_Witness ==
    /\ Resolved({"replay"})
    /\ invocation.split = 0
    /\ invocation.input.t = "arr"
    /\ Len(invocation.input.f) = 2
    /\ DistinctIds(invocation.input)
    /\ invocation.first = invocation.input

\* C16 as stated: the same for every collection base.
C16_AsStated == IdentityLaw(FALSE)

\* Every update delta of the sequence meets, when its turn comes, an item of
\* its id in the collection.
UpdatesHit(base, deltas) ==
    base.t = "arr" =>
        \A k \in 1..Len(deltas) :
            deltas[k].action = "update" =>
                MapHas(ApplyDeltas(ItemMap(base.f), SubSeq(deltas, 1, k - 1)), deltas[k].id)

\* Replaying the deltas in two calls gives what replaying them in one gives.
Compositional(hit) ==
    (Resolved({"done"}) /\ (hit => UpdatesHit(invocation.input, invocation.deltas))) =>
        SameValue(invocation.result, resolveDeltas(invocation.input, invocation.deltas))

RECURSIVE Shell(_)
Shell(x) == Obj([k \in {j \in DOMAIN x.f : ~IsLeaf(x.f[j])} |-> Shell(x.f[k])])

\* C18 (amended): for every object x, pruneUnchanged(x, x) returns a structure
\* with no leaf field: it holds an empty object for every plain-object field of
\* x, at every depth, and nothing else.
C18_PruneSelf ==
    (Pruned /\ invocation.input = invocation.comparison /\ invocation.ignoreKeys = {}) =>
        /\ invocation.result.kind = "return"
        /\ SameValue(invocation.result.value, Shell(invocation.input))

\* C18 witness: pruneUnchanged(x, x) has returned for an x with a leaf field and
\* a plain-object field that holds a leaf and a plain object.
C18_Witness ==
    /\ Pruned
    /\ invocation.input = invocation.comparison
    /\ invocation.ignoreKeys = {}
    /\ DOMAIN invocation.input.f = {"a", "b"}
    /\ invocation.input.f.b.t = "obj"
    /\ DOMAIN invocation.input.f.b.f = {"c", "d"}
    /\ invocation.input.f.b.f.c.t = "obj"
    /\ invocation.result.kind = "return"

\* C18 as stated: pruneUnchanged(x, x) returns a structure with no fields.
C18_AsStated ==
    (Pruned /\ invocation.input = invocation.comparison /\ invocation.ignoreKeys = {}) =>
        /\ invocation.result.kind = "return"
        /\ DOMAIN invocation.result.value.f = {}

\* Deep merge of a patch onto an object: plain objects are merged key by key,
\* every other value of the patch replaces the one it meets.
RECURSIVE DeepMerge(_, _)
DeepMerge(target, patch) ==
    Obj([k \in (DOMAIN target.f) \cup (DOMAIN patch.f) |->
            IF k \notin DOMAIN patch.f THEN target.f[k]
            ELSE IF k \in DOMAIN target.f /\ target.f[k].t = "obj" /\ patch.f[k].t = "obj"
                 THEN DeepMerge(target.f[k], patch.f[k])
                 ELSE patch.f[k]])

\* C19: pruneUnchanged(update, comparison) returns, and deep-merging what it
\* returns onto comparison gives the object that deep-merging update onto
\* comparison gives.
C19_MergeSame ==
    Pruned =>
        /\ invocation.result.kind = "return"
        /\ SameValue(DeepMerge(invocation.comparison, invocation.result.value),
                     DeepMerge(invocation.comparison, invocation.input))

\* A leaf key of update is in out exactly when its value differs from the value
\* at the same path of comparison or its key is to be ignored; a plain-object
\* key is pruned the same way one level down; out has no other key.
RECURSIVE KeptExactly(_, _, _, _)
KeptExactly(update, comparison, out, ignoreKeys) ==
    /\ out.t = "obj"
    /\ DOMAIN out.f \subseteq DOMAIN update.f
    /\ \A k \in DOMAIN update.f :
            IF IsLeaf(update.f[k])
            THEN /\ k \in DOMAIN out.f <=>
                        (~SameValue(update.f[k], Index(comparison, k)) \/ k \in ignoreKeys)
                 /\ k \in DOMAIN out.f => SameValue(out.f[k], update.f[k])
            ELSE /\ k \in DOMAIN out.f
                 /\ KeptExactly(update.f[k], Index(comparison, k), out.f[k], {})

\* C20: pruneUnchanged returns an object that keeps a leaf key of update, at
\* any depth below plain-object fields, exactly when its value is not deep-equal
\* to the value at the same path of comparison or, at top level, its key is in
\* ignoreKeys, and that has no key update lacks; for the update {a:1,b:{c:2,d:3}}
\* and the comparison {a:1,b:{c:9,d:3}} it returns {b:{c:2}}.
C20_LeafKept ==
    Pruned =>
        /\ invocation.result.kind = "return"
        /\ KeptExactly(invocation.input, invocation.comparison,
                       invocation.result.value, invocation.ignoreKeys)
        /\ (/\ invocation.input = ExampleUpdate
            /\ invocation.comparison = ExampleComparison
            /\ invocation.ignoreKeys = {}) =>
                invocation.result.value = Obj([b |-> Obj([c |-> Num(2)])])

\* The identifiers of the items of a list.
IdsIn(list) == {list[k].f.id : k \in 1..Len(list)}

\* No two items of the list carry the same identifier.
UniqueIds(list) == Cardinality(IdsIn(list)) = Len(list)

\* The item of that identifier in a list with unique identifiers.
ItemOf(list, id) == list[CHOOSE k \in 1..Len(list) : list[k].f.id = id]

\* The list holds exactly the members of the set, each once.
HoldsExactly(list, S) == Range(list) = S /\ Cardinality(S) = Len(list)

\* A call of diff on two collections with unique identifiers has returned.
Diffed ==
    /\ invocation.fn = "diff"
    /\ invocation.pc = "done"
    /\ UniqueIds(invocation.local)
    /\ UniqueIds(invocation.remote)

\* C21: for two collections with unique ids each, in any order, diff returns as
\* created exactly the remote items whose id no local item carries, as destroyed
\* exactly the ids of the local items whose id no remote item carries, and as
\* updated exactly the remote items whose id a local item carries and that are
\* not deep-equal to it; an item deep-equal on both sides is in none of them.
C21_DiffClassifies ==
    Diffed =>
        LET local == invocation.local
            remote_ == invocation.remote
            out == invocation.result
        IN /\ HoldsExactly(out.created,
                           {x \in Range(remote_) : x.f.id \notin IdsIn(local)})
           /\ HoldsExactly(out.destroyed, IdsIn(local) \ IdsIn(remote_))
           /\ HoldsExactly(out.updated,
                           {x \in Range(remote_) :
                                /\ x.f.id \in IdsIn(local)
                                /\ ~deepEquals(ItemOf(local, x.f.id), x, "strict")})
           /\ \A x \in Range(remote_) :
                x \in Range(local) =>
                    /\ x \notin Range(out.created) \cup Range(out.updated)
                    /\ x.f.id \notin Range(out.destroyed)

\* C21 witness: diff([{id:2,name:1},{id:1,name:1}], [{id:3,name:1},{id:2,name:2}])
\* returned one created, one updated and one destroyed; and the scenario
\* diff([1a, 2b], [2b, 3a]) is among the calls.
C21_Witness ==
    /\ Diffed
    /\ invocation.local = <<Item(2, 1), Item(1, 1)>>
    /\ invocation.remote = <<Item(3, 1), Item(2, 2)>>
    /\ invocation.result = [created |-> <<Item(3, 1)>>, updated |-> <<Item(2, 2)>>,
                            destroyed |-> <<Num(1)>>]

\* The identities for which conflict handling raised an error other than
\* ConflictError during pass p.
RaisedIds(p) == {i \in Ids : ToString(i) \in passes[p].plan.raised}

\* C22: when conflict handling of an entry raised anything other than the
\* conflict signal in a pass that was not aborted, the pass has ended by
\* rejecting, none of its writes was dispatched, and the identity of the entry
\* is not among the ids handed to sync.
C22_ConflictErrorPropagates ==
    \A p \in PassIds : \A i \in RaisedIds(p) :
        ~Aborted(passes[p]) =>
            /\ passes[p].pc = "done"
            /\ passes[p].outcome = "rejected"
            /\ passes[p].writes = <<>>
            /\ passes[p].pending = {}
            /\ (Planned(p) => Num(i) \notin SyncIds(passes[p].plan))

\* The identities for which a plan schedules a remote or a local operation.
ScheduledIds(plan) ==
    {Num(i) : i \in {j \in Ids : RemoteOpsOn(plan, Num(j)) \cup LocalOpsOn(plan, Num(j)) # {}}}

\* The sync call of pass p is issued in this step / settles in this step.
SyncIssued(p) == passes[p].pc \in {"getCache", "dispatch"} /\ passes'[p].pc = "sync"
SyncSettles(p) == passes[p].pc = "sync" /\ passes'[p].pc # "sync"

\* What C23 says of pass p at the step that issues its sync call, with or
\* without the comparison of the ids.
SyncAfterWrites(p, exact) ==
    /\ SyncIssued(p) =>
            /\ passes'[p].pending = {}
            /\ passes'[p].failed = {}
            /\ passes'[p].ok = 1..Len(passes'[p].writes)
            /\ exact => SyncIds(passes'[p].plan) = ScheduledIds(passes'[p].plan)
    /\ SyncSettles(p) =>
            /\ passes'[p].pc = "done"
            /\ cache' = CacheSyncOp(cache, SyncIds(passes[p].plan))
    /\ passes[p].pc = "done" => passes'[p].pc = "done"

\* C23: the sync call of a pass is issued once, when every write the pass
\* dispatched has completed, and the ids it is given are exactly the ids for
\* which the plan holds a remote or a local operation.
C23_SyncOnceAfterWrites == [][\A p \in PassIds : SyncAfterWrites(p, TRUE)]_vars

\* The calls a mutation still has in flight, and the step in which one settles.
Open(m) ==
    IF m.pc = "detached" THEN Range(m.detached)
    ELSE IF m.pc \in {"cache", "remote", "sync"} THEN {m.pc}
    ELSE {}
SettlesFor(kinds, c) == mut.kind \in kinds /\ c \in Open(mut) /\ c \notin Open(mut')

\* What C24 says of a step of a cache-enabled mutation of one of these kinds:
\* the remote call settles after the cache was written, and the sync call
\* settles only after the remote call succeeded.
CacheThenRemoteThenSync(kinds) ==
    mut.cache =>
        /\ SettlesFor(kinds, "remote") => Open(mut) \cap {"cache", "destroy"} = {}
        /\ SettlesFor(kinds, "sync") => mut.remote = "ok"

\* C24: a mutation issued with the cache enabled writes the cache before the
\* remote, and its identity is marked synced in the cache only after the remote
\* operation completed successfully; when the remote operation fails, sync is
\* not called.
C24_SyncAfterRemote == [][CacheThenRemoteThenSync({"store", "update", "destroy"})]_vars

\* The step that ends a mutation of one of these kinds whose remote call was
\* answered with the offline signal.
EndsOffline(kinds) ==
    /\ mut.pc \notin {"idle", "done"}
    /\ mut'.pc = "done"
    /\ mut'.kind \in kinds
    /\ mut'.remote = "offline"

\* What C25 says of such a step.
OfflineAnswer(kinds) ==
    EndsOffline(kinds) =>
        IF mut'.cache
        THEN /\ mut'.outcome = "resolved"
             /\ mut'.kind # "destroy" => mut'.result = mut'.cacheResult
             /\ IsPending(cache'[mut'.id.v])
        ELSE mut'.outcome = "rejected"

\* C25: when the remote adapter answers store, update or destroy with the
\* offline signal, the call resolves with the cache's result and the entry
\* stays pending in the cache if the cache is enabled, and rejects otherwise.
C25_OfflineMutation == [][OfflineAnswer({"store", "update", "destroy"})]_vars

\* The identity a call of the conflict handler was made for.
CallId(c) == Coalesce(c[2], c[1]).f.id

\* What C26 says of the step in which pass q classifies the entries, for the
\* identities an earlier pass p of this kind wrote to the remote.
NotRedone(p, q, others) ==
    (/\ p < q
     /\ passes[q].pc = "getCache"
     /\ passes'[q].pc # "getCache"
     /\ others => passes[p].failed = {}) =>
        \A id \in passes[p].wrote :
            FetchedItem(passes[q].response.data.f, id) = remote[id.v] =>
                /\ \A c \in 1..Len(passes'[q].plan.calls) : CallId(passes'[q].plan.calls[c]) # id
                /\ RemoteOpsOn(passes'[q].plan, id) = {}

\* C26: an entry whose pending local mutation a pass wrote to the remote is,
\* with nobody else changing that remote item, not classified as a conflict and
\* not written to the remote again by a later pass, also when another write of
\* the earlier pass failed.
C26_WrittenNotRedone == [][\A p, q \in PassIds : NotRedone(p, q, FALSE)]_vars

\* The mutation was issued while the remote was offline and the cache recorded
\* it: the call resolved with the cache's result, or it destroyed an item the
\* cache held.
RecordedOffline ==
    /\ mut.pc = "done"
    /\ mut.cache
    /\ mut.remote = "offline"
    /\ IF mut.kind = "destroy" THEN remote[mut.id.v] # Null ELSE mut.outcome = "resolved"

\* The remote store carries the mutation.
MutationOnRemote ==
    /\ mut.pc = "done"
    /\ LET r == remote[mut.id.v]
       IN CASE mut.kind = "destroy" -> r = Null
            [] mut.kind = "store" -> r = mut.item
            [] OTHER -> r # Null /\ r.f.name = mut.item.f.name

\* C27: a mutation the cache recorded while the remote was offline is
\* eventually written to the remote once the offline listener has reported
\* that connectivity is back, remote calls succeeding and nobody else changing
\* the item.
C27_EventuallyWritten == RecordedOffline ~> MutationOnRemote

Times(plan, list, id) == Cardinality(OpsOn(plan, {list}, id))

\* The list refresh returns when pass p ends in this step.
Returns(p) == SyncSettles(p) /\ passes'[p].committed

\* The resolutions of pass p that are items.
ItemResolutions(p) ==
    {k \in 1..Len(passes[p].plan.resolved) : passes[p].plan.resolved[k].resolution # Null}

\* The destroys C29 names for one null resolution r of a plan.
DestroyedOnBothSides(plan, r) ==
    LET id == SyncIdOf(r.entry)
    IN /\ Times(plan, "remoteDestroy", id) = IF r.remote # Null THEN 1 ELSE 0
       /\ r.remote # Null => r.remote.f.id = id
       /\ Times(plan, "localDestroy", id) = IF r.entry.local # Null THEN 1 ELSE 0
       /\ r.entry.local # Null => r.entry.local.f.id = id

\* The other resolutions of pass p that are items with the id of resolution k.
TakenOverBy(p, k) ==
    {j \in ItemResolutions(p) :
        passes[p].plan.resolved[j].resolution.f.id
            = SyncIdOf(passes[p].plan.resolved[k].entry)}
NotTakenOver(p, k) == TakenOverBy(p, k) = {}

\* No store and no update is scheduled for the entry of resolution k: the
\* stores and updates on its id are the one remote and the one local operation
\* of each resolution that is an item with that id.
NoStoreOrUpdate(p, k) ==
    LET id == SyncIdOf(passes[p].plan.resolved[k].entry)
    IN Cardinality(OpsOn(passes[p].plan,
                         {"remoteStore", "remoteUpdate", "localStore", "localUpdate"}, id))
            = 2 * Cardinality(TakenOverBy(p, k))

\* The identity is neither in the map nor in the list refresh returns when
\* pass p ends in this step.
Gone(p, r) ==
    LET id == SyncIdOf(r.entry)
    IN /\ ~MapHas(passes[p].plan.map, ToString(id.v))
       /\ Returns(p) => state'.t = "arr" /\ id \notin IdsIn(state'.f)

\* The resolutions of pass p that are null.
NullResolutions(p) ==
    {k \in 1..Len(passes[p].plan.resolved) : passes[p].plan.resolved[k].resolution = Null}

IdsOf(r) == {IdOf(r.entry), r.resolution.f.id}

\* No other cache entry, no other fetched item and no other resolution of the
\* pass carries an id of resolution k.
Apart(p, k) ==
    LET pass == passes[p]
        r == pass.plan.resolved[k]
    IN /\ \A e \in Range(pass.entries) : e # r.entry => IdOf(e) \notin IdsOf(r)
       /\ \A d \in Range(pass.response.data.f) : d # r.remote => d.f.id \notin IdsOf(r)
       /\ \A j \in 1..Len(pass.plan.resolved) :
            (j # k /\ pass.plan.resolved[j].resolution # Null) =>
                pass.plan.resolved[j].resolution.f.id \notin IdsOf(r)

\* Each side is brought to R by the operations C30 names.
BroughtTo(plan, r) ==
    LET R == r.resolution
        In(list, x) == \E k \in 1..Len(plan[list]) : plan[list][k] = x
    IN /\ CASE r.remote = Null -> In("remoteStore", R)
            [] r.remote # Null /\ r.remote.f.id # R.f.id ->
                    In("remoteDestroy", r.remote.f.id) /\ In("remoteStore", R)
            [] OTHER -> In("remoteUpdate", R)
       /\ CASE r.entry.local = Null -> In("localStore", R)
            [] r.entry.local # Null /\ r.entry.local.f.id # R.f.id ->
                    In("localDestroy", r.entry.local.f.id) /\ In("localStore", R)
            [] OTHER -> In("localUpdate", R)

\* ... and by no other operation on the ids of the entry.
OnlyThose(plan, r) ==
    LET R == r.resolution
        Count(lists) ==
            Cardinality(UNION {OpsOn(plan, lists, id) : id \in IdsOf(r)})
    IN /\ Count({"remoteStore", "remoteUpdate", "remoteDestroy"}) =
            IF r.remote # Null /\ r.remote.f.id # R.f.id THEN 2 ELSE 1
       /\ Count({"localStore", "localUpdate", "localDestroy"}) =
            IF r.entry.local # Null /\ r.entry.local.f.id # R.f.id THEN 2 ELSE 1

\* R is the item of its identity in the map, and in the list refresh returns
\* when pass p ends in this step.
InList(p, r) ==
    /\ MapGet(passes[p].plan.map, uniqueIdentifierCallback(r.resolution)) = r.resolution
    /\ Returns(p) =>
            /\ state'.t = "arr"
            /\ \A x \in Range(state'.f) :
                    x.f.id = r.resolution.f.id <=> x = r.resolution
            /\ r.resolution \in Range(state'.f)

PlanLists ==
    {<<"remoteStore", "remote", "store">>, <<"remoteUpdate", "remote", "update">>,
     <<"remoteDestroy", "remote", "destroy">>, <<"localStore", "local", "store">>,
     <<"localUpdate", "local", "update">>, <<"localDestroy", "local", "destroy">>}

\* The calls of a dispatch that address one list / that carry exactly args.
CallsOf(writes, l) == {k \in 1..Len(writes) : writes[k].side = l[2] /\ writes[k].op = l[3]}
CallsWith(writes, l, args) == {k \in CallsOf(writes, l) : writes[k].args = args}

\* Batched: one call with the whole list for each list that is not empty.
OneCallPerList(plan, writes) ==
    \A l \in PlanLists :
        /\ Cardinality(CallsOf(writes, l)) = IF plan[l[1]] = <<>> THEN 0 ELSE 1
        /\ CallsWith(writes, l, plan[l[1]]) = CallsOf(writes, l)
        /\ \A k \in CallsOf(writes, l) : writes[k].batch

\* Itemized: one call for each operation of each list.
OneCallPerOperation(plan, writes) ==
    \A l \in PlanLists :
        /\ Cardinality(CallsOf(writes, l)) = Len(plan[l[1]])
        /\ \A k \in CallsOf(writes, l) : ~writes[k].batch /\ Len(writes[k].args) = 1
        /\ \A x \in Range(plan[l[1]]) :
                Cardinality(CallsWith(writes, l, <<x>>))
                    = Cardinality({j \in 1..Len(plan[l[1]]) : plan[l[1]][j] = x})

\* The states a store can be left in by calls that all succeed, whatever the
\* order in which they are served.
RECURSIVE Outcomes(_, _, _)
Outcomes(store, writes, left) ==
    IF left = {} THEN {store}
    ELSE UNION {Outcomes(ApplyWrite(store, writes[k]), writes, left \ {k}) : k \in left}
OutcomesOn(store, writes, side) ==
    Outcomes(store, writes, {k \in 1..Len(writes) : writes[k].side = side})

\* Nothing of the dispatch of pass p has been served yet.
JustDispatched(p) ==
    /\ passes[p].pc = "dispatch"
    /\ passes[p].ok = {}
    /\ passes[p].failed = {}

\* No id is named twice by the lists of one side of a plan.
Disjoint(plan) ==
    \A i \in Ids :
        /\ Cardinality(RemoteOpsOn(plan, Num(i))) <= 1
        /\ Cardinality(LocalOpsOn(plan, Num(i))) <= 1

\* Every item the resolver returned in pass p has an id of its own.
NoCollision(p) == \A k \in ItemResolutions(p) : Apart(p, k)

\* Both modes leave each store in one and the same state.
SameFinalState(plan) ==
    LET batched == Dispatch(plan, TRUE)
        itemized == Dispatch(plan, FALSE)
        Synced(caches) == {CacheSyncOp(c, SyncIds(plan)) : c \in caches}
    IN /\ OutcomesOn(remote, batched, "remote") = OutcomesOn(remote, itemized, "remote")
       /\ Cardinality(OutcomesOn(remote, itemized, "remote")) = 1
       /\ Synced(OutcomesOn(cache, batched, "local")) = Synced(OutcomesOn(cache, itemized, "local"))
       /\ Cardinality(Synced(OutcomesOn(cache, itemized, "local"))) = 1

C32_AsStated == \A p \in PassIds : Planned(p) => Disjoint(passes[p].plan)

\* C32 (amended): the lists of a pass are disjoint in that sense provided that
\* every item the resolver returned in the pass has an id that no other cache
\* entry, fetched item or resolution of the pass carries.
C32_ListsDisjoint ==
    \A p \in PassIds : (Planned(p) /\ NoCollision(p)) => Disjoint(passes[p].plan)

\* A pass whose plan holds two operations on each side, one of them after the
\* resolver moved an item to an id of its own.
C32_Witness ==
    \E p \in PassIds :
        /\ Planned(p)
        /\ NoCollision(p)
        /\ \E k \in ItemResolutions(p) :
                passes[p].plan.resolved[k].resolution.f.id
                    # IdOf(passes[p].plan.resolved[k].entry)
        /\ Len(passes[p].plan.remoteDestroy) + Len(passes[p].plan.remoteStore) >= 2
        /\ Len(passes[p].plan.localDestroy) + Len(passes[p].plan.localStore) >= 2

\* The ids a destroy call or a destroyed event may name.
NamedIds == {Num(i) : i \in Ids} \cup {AsText(Num(i)) : i \in Ids}

\* No item of the list has an id loosely equal to d.
NoneLeft(s, d) ==
    s.t = "arr" => \A k \in 1..Len(s.f) : ~LooseEquals(ItemId(s.f[k]), d)

\* The handler of a destroyed event for d runs in this step / destroy(d) is
\* called in this step.
DestroyedEvent(d) ==
    /\ ~loading
    /\ \E i \in Ids, asText \in BOOLEAN :
        /\ d = IF asText THEN AsText(Num(i)) ELSE Num(i)
        /\ PushDestroyed(Num(i), asText)
DestroyCall(d) ==
    /\ mut.pc \in {"idle", "done"}
    /\ mut'.pc # "idle"
    /\ mut' # mut
    /\ mut'.kind = "destroy"
    /\ mut'.id = d

\* C33: after a destroy call or a destroyed push event for id d has been
\* applied to a list resource, the list holds no item whose id is loosely equal
\* to d (1 and "1"), the rule by which created and updated handling match.
C33_DestroyedLoosely ==
    [][\A d \in NamedIds :
        (DestroyedEvent(d) \/ DestroyCall(d)) => NoneLeft(state', d)]_vars

\* The listeners consulted for the last notification that returned r.
Returned(r) ==
    {k \in 1..Len(invocation.consulted) : invocation.consulted[k].returns = r}

\* C34: a created, updated or destroyed notification is withheld from the
\* in-memory state only if some listener returned false for it; a listener
\* that returns nothing or true never suppresses the change, whether it is
\* passed directly to the hook or registered through the provider; and every
\* registered listener is invoked once per notification.
C34_OnlyFalseSuppresses ==
    (invocation.fn = "notify" /\ invocation.pc = "done") =>
        /\ ~invocation.applied => Returned(Bool(FALSE)) # {}
        /\ Len(invocation.called) = Len(invocation.consulted)
        /\ \A k \in 1..Len(invocation.consulted) :
                Cardinality({j \in 1..Len(invocation.called) :
                                invocation.called[j] = invocation.consulted[k].name}) = 1

\* A pass that has not been aborted is in flight / every pass that was started
\* has ended and none was cut short by an abort.
PassInFlight == \E p \in PassIds : InFlight(p) /\ ~Aborted(passes[p])
AllPassesEnded ==
    /\ \E p \in PassIds : passes[p].pc = "done"
    /\ \A p \in PassIds : passes[p].pc \in {"idle", "done"} /\ ~Aborted(passes[p])

\* C35: loading is true at every moment at which a refresh pass that has not
\* been aborted is in flight, and false once every pass has ended, with a
\* result or with an error.
C35_LoadingFollowsPasses ==
    /\ PassInFlight => loading
    /\ AllPassesEnded => ~loading

\* One delta as the claim words it, on the list itself: a store overwrites the
\* item of the resource's id where it stands or appends the resource, an update
\* merges its patch onto the item of its id where it stands, a destroy takes
\* the item of its id out; every other item stays where it is.
Replayed(list, delta) ==
    CASE delta.action = "store" ->
            IF \E k \in 1..Len(list) : ItemId(list[k]) = ItemId(delta.resource)
            THEN [k \in 1..Len(list) |->
                    IF ItemId(list[k]) = ItemId(delta.resource)
                    THEN delta.resource ELSE list[k]]
            ELSE Append(list, delta.resource)
      [] delta.action = "update" ->
            [k \in 1..Len(list) |->
                IF ItemId(list[k]) = delta.id
                THEN Spread(list[k], delta.update) ELSE list[k]]
      [] OTHER -> SelectSeq(list, LAMBDA item : ItemId(item) # delta.id)

\* The deltas replayed one after the other, in their order.
RECURSIVE ReplayedAll(_, _)
ReplayedAll(list, deltas) ==
    IF deltas = <<>> THEN list
    ELSE ReplayedAll(Replayed(list, Head(deltas)), Tail(deltas))

\* The deltas of the first call of the invocation.
FirstDeltas == SubSeq(invocation.deltas, 1, invocation.split)

\* What resolveDeltas returns for a collection is the list replayed in order.
ReplayedInOrder(unique) ==
    (/\ Resolved({"replay", "done"})
     /\ invocation.input.t = "arr"
     /\ UpdatesHit(invocation.input, FirstDeltas)
     /\ unique => DistinctIds(invocation.input)) =>
        SameValue(invocation.first, Arr(ReplayedAll(invocation.input.f, FirstDeltas)))

TargetId(delta) ==
    IF delta.action = "store" THEN ItemId(delta.resource) ELSE delta.id

\* The rest of the deltas of the invocation, those of its second call.
RestDeltas == SubSeq(invocation.deltas, invocation.split + 1, Len(invocation.deltas))

\* item with the fields of patch laid over its own, one level deep.
ShallowMerge(item, patch, merged) ==
    /\ merged.t = "obj"
    /\ DOMAIN merged.f = DOMAIN item.f \cup DOMAIN patch.f
    /\ \A k \in DOMAIN merged.f :
            merged.f[k] = IF k \in DOMAIN patch.f THEN patch.f[k] ELSE item.f[k]

\* What one call of the single-item form gives for the item from and deltas.
SingleItemRule(from, deltas, to) ==
    /\ from = Null => to = Null
    /\ (from # Null /\ \A k \in 1..Len(deltas) : TargetId(deltas[k]) # ItemId(from)) =>
            to = from
    /\ (from # Null /\ \E k \in 1..Len(deltas) :
            deltas[k].action = "destroy" /\ deltas[k].id = ItemId(from)) =>
            to = Null
    /\ (/\ from # Null
        /\ Len(deltas) = 1
        /\ deltas[1].action = "update"
        /\ deltas[1].id = ItemId(from)) =>
            ShallowMerge(from, deltas[1].update, to)

\* C37: for a single-item base, resolveDeltas ignores every delta whose id
\* differs from the item's id, shallow-merges the patch of an update of the
\* item's id, returns absent after a destroy of the item's id, and once the
\* result is absent every later delta, a store or an update of the same id
\* included, leaves it absent.
C37_SingleItemForm ==
    /\ (Resolved({"replay", "done"}) /\ invocation.input.t # "arr") =>
            SingleItemRule(invocation.input, FirstDeltas, invocation.first)
    /\ (Resolved({"done"}) /\ invocation.first.t # "arr") =>
            SingleItemRule(invocation.first, RestDeltas, invocation.result)

\* C37 witness: an item was destroyed by the first call, and the second call,
\* with a store of the same id, has left the result absent.
C37_Witness ==
    /\ Resolved({"done"})
    /\ invocation.input.t = "obj"
    /\ invocation.split = 1
    /\ Len(invocation.deltas) = 2
    /\ invocation.deltas[1] = Destroy(ItemId(invocation.input))
    /\ invocation.deltas[2].action = "store"
    /\ ItemId(invocation.deltas[2].resource) = ItemId(invocation.input)
    /\ invocation.first = Null
    /\ invocation.result = Null

\* comparison lacks a key that update holds, at the top level or inside a plain
\* object that both hold under the same key.
RECURSIVE Lacks(_, _)
Lacks(update, comparison) ==
    \E k \in DOMAIN update.f :
        \/ k \notin DOMAIN comparison.f
        \/ /\ update.f[k].t = "obj"
           /\ comparison.f[k].t = "obj"
           /\ Lacks(update.f[k], comparison.f[k])

\* Wherever both hold a key under which update has a plain object, comparison
\* has a plain object too.
RECURSIVE Comparable(_, _)
Comparable(update, comparison) ==
    \A k \in DOMAIN update.f \cap DOMAIN comparison.f :
        update.f[k].t = "obj" =>
            /\ comparison.f[k].t = "obj"
            /\ Comparable(update.f[k], comparison.f[k])

\* Every field of update under a key that comparison lacks is in out as it is
\* in update.
RECURSIVE IncludedWhereLacking(_, _, _)
IncludedWhereLacking(update, comparison, out) ==
    \A k \in DOMAIN update.f :
        IF k \notin DOMAIN comparison.f
        THEN k \in DOMAIN out.f /\ SameValue(out.f[k], update.f[k])
        ELSE (update.f[k].t = "obj" /\ comparison.f[k].t = "obj") =>
                /\ k \in DOMAIN out.f
                /\ IncludedWhereLacking(update.f[k], comparison.f[k], out.f[k])

\* C38: when comparison lacks a key that update holds, at the top level or
\* inside a nested plain object, pruneUnchanged raises no error and its output
\* includes that field of update, whether its value is atomic, an array or a
\* nested plain object.
C38_LackingKeyIncluded ==
    (/\ Pruned
     /\ Lacks(invocation.input, invocation.comparison)
     /\ Comparable(invocation.input, invocation.comparison)) =>
        /\ invocation.result.kind = "return"
        /\ IncludedWhereLacking(invocation.input, invocation.comparison,
                                invocation.result.value)

\* Deep equality with every pair of atomic leaves left to the comparator: two
\* composite values are equal when both are arrays or both are plain objects and
\* the values under every key of either, a missing one read as undefined, are.
RECURSIVE DeepEqualUnder(_, _, _)
DeepEqualUnder(a, b, cmp) ==
    IF isAtomic(a) /\ isAtomic(b)
    THEN ApplyEquality(cmp, a, b)
    ELSE /\ ~isAtomic(a)
         /\ ~isAtomic(b)
         /\ a.t = b.t
         /\ \A key \in DOMAIN a.f \cup DOMAIN b.f :
                DeepEqualUnder(Get(a, key), Get(b, key), cmp)

\* C39: deepEquals(a, b, cmp) decides every pair of atomic leaves, at every
\* depth, with the comparator cmp; two composite values are equal exactly when
\* both are arrays or both are plain objects and, over the union of their keys
\* (a missing key read as undefined), every pair of values is deep-equal under
\* cmp; and deepEquals(b, a, cmp) gives the same for a symmetric cmp.
C39_LeavesUnderComparator ==
    (invocation.fn = "deepEquals" /\ invocation.pc = "done") =>
        /\ invocation.result =
                Bool(DeepEqualUnder(invocation.a, invocation.b, invocation.equalityCallback))
        /\ invocation.swapped = invocation.result

\* An updated or a destroyed event has been handled by a single-item resource
\* whose state was absent and which was not loading.
HandledWhileAbsent ==
    /\ invocation.fn = "event"
    /\ invocation.before = Null
    /\ ~invocation.loading

\* C40: an updated or destroyed push event delivered to a single-item resource
\* whose in-memory state is absent (not yet loaded, fetched as null, already
\* destroyed) while loading is false is ignored: it raises no error and leaves
\* the in-memory state absent.
C40_IgnoredWhileAbsent ==
    HandledWhileAbsent =>
        /\ invocation.thrown = "none"
        /\ invocation.after = Null

====
